---- MODULE Spec2Model ----
(***************************************************************************)
(* Model of ReadmeMuse's documentation-suggestion engine                   *)
(* (src/src/utils/aiAnalyzer.ts): change detection, export extraction,     *)
(* unified-diff synthesis and patch application, and of the delivery of    *)
(* its suggestions as a draft pull request.                                *)
(*                                                                         *)
(* Text is modelled by TLA+ strings; a JavaScript array of lines is a      *)
(* sequence of strings, read 0-based through At.                           *)
(***************************************************************************)
EXTENDS Integers, Sequences, FiniteSets, TLC

VARIABLES
    pc,               \* position of the running call
    original,         \* createUnifiedDiff: argument `original` (array of lines)
    modified,         \* createUnifiedDiff: argument `modified` (array of lines)
    originalContent,  \* applyDiffPatch: argument `originalContent`
    diffPatch,        \* applyDiffPatch: argument `diffPatch`
    lines,            \* applyDiffPatch: local `lines` (the patch, split)
    originalLines,    \* applyDiffPatch: local `originalLines`
    i,                \* applyDiffPatch: loop index over the patch lines
    inDiff,           \* applyDiffPatch: local `inDiff`
    lineIndex,        \* applyDiffPatch: local `lineIndex` (read cursor)
    newLines,         \* applyDiffPatch: local `newLines`
    result,           \* applyDiffPatch: returned string ("" until it returns)
    docFiles,         \* generateDocumentationSuggestions: input.docFiles
    changedFiles,     \* generateDocumentationSuggestions: input.changedFiles
    docIndex,         \* generateDocumentationSuggestions: index of the file analysed
    needsUpdate,      \* analyzeDocumentationFile: local `needsUpdate`
    suggestions,      \* generateDocumentationSuggestions: local `suggestions`
    pr,               \* the pull request of the event (number, base.ref)
    calls,            \* the calls made to the host's API so far, with their outcomes
    errorLog,         \* what context.log.error has been called with
    thrown,           \* the error the running handler has thrown (NoError if none)
    baseSha,          \* createDraftPRWithChanges: local `baseSha`
    suggestionIndex,  \* createDraftPRWithChanges: index of the suggestion applied
    currentContent,   \* applyDocumentationChange: local `currentContent`
    currentSha,       \* applyDocumentationChange: local `currentSha`
    draftNumber,      \* createDraftPRWithChanges: draftPR.number
    payload,          \* handleInstallation: context.payload
    repoIndex,        \* handleInstallation: index of the repository processed
    config,           \* handlePullRequest: local `config`
    matchedPaths,     \* getDocumentationFiles: local `matchedPaths`
    pathIndex,        \* getDocumentationFiles: index of the path read
    prFiles,          \* the files of the pull request, as the host lists them
    fileList,         \* matchFiles, shouldAnalyzePR: the list of files given
    patternList,      \* matchFiles, shouldAnalyzePR: the list of patterns given
    matchedFiles,     \* matchFiles: returned list
    shouldAnalyze,    \* shouldAnalyzePR: returned value
    exports,          \* extractNewExports: returned array
    passPc,           \* two passes: where each pass of createDraftPRWithChanges is
    branch,           \* two passes: the sync branch of the pull request on the host
    passRef,          \* two passes: the sync branch each pass has created
    passSha,          \* two passes: applyDocumentationChange: local `currentSha`
    commits,          \* two passes: the commits made on the sync branch
    drafts            \* two passes: the passes whose draft PR is open

\* the state of generateDocumentationSuggestions
analysisVars == <<docFiles, changedFiles, docIndex, needsUpdate, suggestions>>
\* the state of createUnifiedDiff and applyDiffPatch called on their own
patchVars == <<original, modified, originalContent, diffPatch, lines, originalLines,
               i, inDiff, lineIndex, newLines, result>>

\* the state of createDraftPRWithChanges and applyDocumentationChange
draftVars == <<baseSha, suggestionIndex, currentContent, currentSha, draftNumber>>
\* the event, and what has been observed of the calls to the host
hostVars == <<pr, calls, errorLog, thrown>>

\* the state of handleInstallation
installVars == <<payload, repoIndex>>
\* the state of handlePullRequest and analyzePRForDocUpdates
requestVars == <<config, matchedPaths, pathIndex, prFiles>>

\* the state of two passes of createDraftPRWithChanges and of the host
passVars == <<passPc, branch, passRef, passSha, commits, drafts>>
\* the state of matchFiles and shouldAnalyzePR called on their own
matchVars == <<fileList, patternList, matchedFiles, shouldAnalyze>>

vars == <<pc, patchVars, analysisVars, draftVars, hostVars, installVars, requestVars,
         matchVars, exports, passVars>>

(***************************************************************************)
(* Bounds of the model.                                                    *)
(***************************************************************************)
MaxOriginal == 4
MaxModified == 6
MaxPatchBody == 3
MaxDocFiles == 2
MaxChangedFiles == 2
MaxSuggestions == 2

(***************************************************************************)
(* JavaScript built-ins used by the source.                                *)
(***************************************************************************)
Min(a, b) == IF a < b THEN a ELSE b
Max(a, b) == IF a > b THEN a ELSE b
Least(S) == CHOOSE x \in S : \A y \in S : x <= y

\* arr[k] for a 0-based index inside the array
At(arr, k) == arr[k + 1]

\* s.charAt(p - 1): the character at 1-based position p
CharAt(s, p) == SubSeq(s, p, p)

\* the literal lit stands in s at 1-based position p
Lit(s, p, lit) ==
    /\ p >= 1
    /\ p + Len(lit) - 1 <= Len(s)
    /\ SubSeq(s, p, p + Len(lit) - 1) = lit

\* s.startsWith(prefix)
StartsWith(s, prefix) == Lit(s, 1, prefix)

\* s.includes(part)
Includes(s, part) == \E p \in 1..(Len(s) - Len(part) + 1) : Lit(s, p, part)

\* s.substring(1)
Substring1(s) == SubSeq(s, 2, Len(s))

\* s.split(sep) for a separator of one character
RECURSIVE SplitBy(_, _)
SplitBy(s, sep) ==
    LET at == {p \in 1..Len(s) : CharAt(s, p) = sep}
    IN  IF at = {} THEN <<s>>
        ELSE LET p == Least(at)
             IN  <<SubSeq(s, 1, p - 1)>> \o SplitBy(SubSeq(s, p + 1, Len(s)), sep)

\* s.split("\n")
Split(s) == SplitBy(s, "\n")

\* arr.join("\n") for an array of strings
RECURSIVE Join(_)
Join(arr) ==
    IF Len(arr) = 0 THEN ""
    ELSE IF Len(arr) = 1 THEN arr[1]
    ELSE arr[1] \o "\n" \o Join(Tail(arr))

WhiteSpace == {" ", "\t", "\r", "\n", "\f"}

\* s.trim()
Trim(s) ==
    LET keep == {p \in 1..Len(s) : CharAt(s, p) \notin WhiteSpace}
    IN  IF keep = {} THEN ""
        ELSE SubSeq(s, Least(keep), CHOOSE p \in keep : \A q \in keep : q <= p)

DigitChars == <<"0", "1", "2", "3", "4", "5", "6", "7", "8", "9">>
IsDigit(c) == c \in {"0", "1", "2", "3", "4", "5", "6", "7", "8", "9"}
DigitValue(c) == (CHOOSE d \in 1..10 : DigitChars[d] = c) - 1

\* parseInt(s, 10) for a non-empty string of digits
RECURSIVE ParseInt(_)
ParseInt(s) ==
    IF Len(s) = 1 THEN DigitValue(s)
    ELSE 10 * ParseInt(SubSeq(s, 1, Len(s) - 1)) + DigitValue(CharAt(s, Len(s)))

\* `${n}` for an integer n
RECURSIVE NatToString(_)
NatToString(n) ==
    IF n < 10 THEN DigitChars[n + 1]
    ELSE NatToString(n \div 10) \o DigitChars[(n % 10) + 1]
NumberToString(n) == IF n < 0 THEN "-" \o NatToString(0 - n) ELSE NatToString(n)

(***************************************************************************)
(* createUnifiedDiff(path, original, modified)                             *)
(***************************************************************************)
ContextLines == 3

\* the loop that finds the first index where the arrays differ (0 if none)
FirstDiff(orig, modif) ==
    LET differ == {k \in 0..(Min(Len(orig), Len(modif)) - 1) : At(orig, k) # At(modif, k)}
    IN  IF differ = {} THEN 0 ELSE Least(differ)

DiffStart(orig, modif) == Max(0, FirstDiff(orig, modif) - ContextLines)
DiffEnd(orig, modif) == Min(Len(orig), FirstDiff(orig, modif) + ContextLines + 5)

\* the hunk header pushed at line 213
HunkHeader(orig, modif) ==
    LET start == DiffStart(orig, modif)
        end == DiffEnd(orig, modif)
    IN  "@@ -" \o NumberToString(start + 1) \o "," \o NumberToString(end - start)
        \o " +" \o NumberToString(start + 1) \o ","
        \o NumberToString(end - start + (Len(modif) - Len(orig))) \o " @@"

\* first loop: the leading context lines
LeadingContext(orig, modif) ==
    LET start == DiffStart(orig, modif)
        stop == Min(start + ContextLines, Len(orig))
    IN  [k \in 1..Max(0, stop - start) |-> " " \o At(orig, start + k - 1)]

\* second loop: a delete/insert pair where the lines differ, context otherwise
RECURSIVE ShowDifferences(_, _, _, _)
ShowDifferences(orig, modif, k, stop) ==
    IF k >= stop THEN <<>>
    ELSE (IF k < Len(modif) /\ At(orig, k) # At(modif, k)
          THEN <<"-" \o At(orig, k), "+" \o At(modif, k)>>
          ELSE <<" " \o At(orig, k)>>)
         \o ShowDifferences(orig, modif, k + 1, stop)

\* third loop: the lines `modified` has past the end of `original`
TrailingInserts(orig, modif) ==
    LET stop == Min(Len(modif), DiffEnd(orig, modif) + 5)
    IN  [k \in 1..Max(0, stop - Len(orig)) |-> "+" \o At(modif, Len(orig) + k - 1)]

\* the array `diff` before it is joined
DiffLines(path, orig, modif) ==
    <<"--- a/" \o path, "+++ b/" \o path, HunkHeader(orig, modif)>>
    \o LeadingContext(orig, modif)
    \o ShowDifferences(orig, modif, DiffStart(orig, modif) + ContextLines,
                       Min(DiffEnd(orig, modif), Len(orig)))
    \o TrailingInserts(orig, modif)

createUnifiedDiff(path, orig, modif) == Join(DiffLines(path, orig, modif))

(***************************************************************************)
(* applyDiffPatch(originalContent, diffPatch)                              *)
(***************************************************************************)
\* An element of the array newLines: a string, or the value `undefined` that
\* reading an array outside its bounds yields.
Str(s) == [defined |-> TRUE, text |-> s]
Undefined == [defined |-> FALSE, text |-> ""]

\* original lines[k]
ArrayGet(arr, k) == IF k >= 0 /\ k < Len(arr) THEN Str(At(arr, k)) ELSE Undefined

\* newLines.join("\n"): join renders undefined as the empty string
RECURSIVE JoinValues(_)
JoinValues(arr) ==
    LET text(v) == IF v.defined THEN v.text ELSE ""
    IN  IF Len(arr) = 0 THEN ""
        ELSE IF Len(arr) = 1 THEN text(arr[1])
        ELSE text(arr[1]) \o "\n" \o JoinValues(Tail(arr))

\* length of the longest run of digits of s that starts at position p
RECURSIVE DigitRun(_, _)
DigitRun(s, p) ==
    IF p <= Len(s) /\ IsDigit(CharAt(s, p)) THEN 1 + DigitRun(s, p + 1) ELSE 0

\* the position after the digits (\d+ or (\d+)?) that start at position p
AfterDigits(s, p) == p + DigitRun(s, p)
\* the position after the optional comma (,?) at position p
AfterComma(s, p) == IF Lit(s, p, ",") THEN p + 1 ELSE p

\* where the four capture groups of the hunk header expression start and end
\* when it is matched from position p: "@@ -" g1 ,? g2 " +" g3 ,? g4 " @@"
Group1Start(s, p) == p + 4
Group1End(s, p) == AfterDigits(s, Group1Start(s, p))
Group2Start(s, p) == AfterComma(s, Group1End(s, p))
Group2End(s, p) == AfterDigits(s, Group2Start(s, p))
Group3Start(s, p) == Group2End(s, p) + 2
Group3End(s, p) == AfterDigits(s, Group3Start(s, p))
Group4Start(s, p) == AfterComma(s, Group3End(s, p))
Group4End(s, p) == AfterDigits(s, Group4Start(s, p))

\* /@@ -(\d+),?(\d+)? \+(\d+),?(\d+)? @@/ matches s at position p
HunkRegexAt(s, p) ==
    /\ Lit(s, p, "@@ -")
    /\ Group1End(s, p) > Group1Start(s, p)
    /\ Lit(s, Group2End(s, p), " +")
    /\ Group3End(s, p) > Group3Start(s, p)
    /\ Lit(s, Group4End(s, p), " @@")

\* the text of s from position from up to, not including, position to
Slice(s, from, to) == SubSeq(s, from, to - 1)

\* the match found at position p, with its four capture groups (a group that
\* took part in no match is undefined, written "" here)
HunkMatchAt(s, p) ==
    [matched |-> TRUE,
     group1 |-> Slice(s, Group1Start(s, p), Group1End(s, p)),
     group2 |-> Slice(s, Group2Start(s, p), Group2End(s, p)),
     group3 |-> Slice(s, Group3Start(s, p), Group3End(s, p)),
     group4 |-> Slice(s, Group4Start(s, p), Group4End(s, p))]

NoMatch == [matched |-> FALSE, group1 |-> "", group2 |-> "", group3 |-> "", group4 |-> ""]

\* line.match(...): null, or the leftmost match
HunkMatch(s) ==
    IF \E p \in 1..Len(s) : HunkRegexAt(s, p)
    THEN HunkMatchAt(s, CHOOSE p \in 1..Len(s) :
                            HunkRegexAt(s, p) /\ \A q \in 1..(p - 1) : ~HunkRegexAt(s, q))
    ELSE NoMatch

\* match[1]: reading an index of null raises a TypeError
MatchGroup1(m) ==
    IF m.matched THEN [threw |-> FALSE, value |-> m.group1]
    ELSE [threw |-> TRUE, value |-> ""]

IsHeaderLine(line) ==
    StartsWith(line, "---") \/ StartsWith(line, "+++") \/ StartsWith(line, "@@")

\* the cursor is seeded with match[3], the start on the new side
SeedFromNewStart(st, m) ==
    IF MatchGroup1(m).threw THEN [st EXCEPT !.threw = TRUE]
    ELSE [st EXCEPT !.lineIndex = ParseInt(m.group3) - 1]

\* lines 441-442: match[1] is parsed into the cursor
SeedFromMatch(st, m) ==
    IF MatchGroup1(m).threw THEN [st EXCEPT !.threw = TRUE]
    ELSE [st EXCEPT !.lineIndex = ParseInt(MatchGroup1(m).value) - 1]

\* SeedCursor without the `if (match)` guard of line 440
SeedCursorUnguarded(st, line) ==
    IF StartsWith(line, "@@") THEN SeedFromMatch(st, HunkMatch(line)) ELSE st

\* lines 438-444: a hunk header that parses seeds the read cursor
SeedCursor(st, line) ==
    IF StartsWith(line, "@@")
    THEN LET match == HunkMatch(line)
         IN  IF match.matched THEN SeedFromMatch(st, match) ELSE st
    ELSE st

\* ApplyLineStep with a context line that emits the text of the patch line
ApplyLineStepPatchText(st, line, origLines) ==
    IF IsHeaderLine(line)
    THEN SeedCursor([st EXCEPT !.inDiff = TRUE], line)
    ELSE IF ~st.inDiff THEN st
    ELSE IF StartsWith(line, "+")
    THEN [st EXCEPT !.newLines = Append(@, Str(Substring1(line)))]
    ELSE IF StartsWith(line, "-")
    THEN [st EXCEPT !.lineIndex = @ + 1]
    ELSE IF StartsWith(line, " ")
    THEN IF st.lineIndex < Len(origLines)
         THEN [st EXCEPT !.newLines = Append(@, Str(Substring1(line))),
                         !.lineIndex = @ + 1]
         ELSE [st EXCEPT !.newLines = Append(@, Str(Substring1(line)))]
    ELSE IF Trim(line) = ""
    THEN IF st.lineIndex < Len(origLines)
         THEN [st EXCEPT !.newLines = Append(@, ArrayGet(origLines, st.lineIndex)),
                         !.lineIndex = @ + 1]
         ELSE st
    ELSE st

\* one iteration of the main loop: st holds inDiff, lineIndex, newLines and
\* whether the iteration raised an exception
ApplyLineStep(st, line, origLines) ==
    IF IsHeaderLine(line)
    THEN SeedCursor([st EXCEPT !.inDiff = TRUE], line)
    ELSE IF ~st.inDiff THEN st
    ELSE IF StartsWith(line, "+")
    THEN [st EXCEPT !.newLines = Append(@, Str(Substring1(line)))]
    ELSE IF StartsWith(line, "-")
    THEN [st EXCEPT !.lineIndex = @ + 1]
    ELSE IF StartsWith(line, " ")
    THEN IF st.lineIndex < Len(origLines)
         THEN [st EXCEPT !.newLines = Append(@, ArrayGet(origLines, st.lineIndex)),
                         !.lineIndex = @ + 1]
         ELSE [st EXCEPT !.newLines = Append(@, Str(Substring1(line)))]
    ELSE IF Trim(line) = ""
    THEN IF st.lineIndex < Len(origLines)
         THEN [st EXCEPT !.newLines = Append(@, ArrayGet(origLines, st.lineIndex)),
                         !.lineIndex = @ + 1]
         ELSE st
    ELSE st

\* the main loop over lines[k..]
RECURSIVE ApplyLoop(_, _, _, _)
ApplyLoop(st, patchLines, k, origLines) ==
    IF k >= Len(patchLines) \/ st.threw THEN st
    ELSE ApplyLoop(ApplyLineStep(st, At(patchLines, k), origLines), patchLines, k + 1, origLines)

\* FallbackLines without the test for the '+++' header
RECURSIVE FallbackLinesWithHeaders(_)
FallbackLinesWithHeaders(patchLines) ==
    IF Len(patchLines) = 0 THEN <<>>
    ELSE (IF StartsWith(patchLines[1], "+") \/ StartsWith(patchLines[1], " ")
          THEN <<Str(Substring1(patchLines[1]))>>
          ELSE <<>>)
         \o FallbackLinesWithHeaders(Tail(patchLines))

\* the simpler second pass: the added and the context lines of the patch, verbatim
RECURSIVE FallbackLines(_)
FallbackLines(patchLines) ==
    IF Len(patchLines) = 0 THEN <<>>
    ELSE (IF StartsWith(patchLines[1], "+") /\ ~StartsWith(patchLines[1], "+++")
          THEN <<Str(Substring1(patchLines[1]))>>
          ELSE IF StartsWith(patchLines[1], " ")
          THEN <<Str(Substring1(patchLines[1]))>>
          ELSE <<>>)
         \o FallbackLines(Tail(patchLines))

\* lines 478-487: the second pass runs only when the first emitted nothing
AfterFallback(patchLines, emitted) ==
    IF Len(emitted) = 0 THEN FallbackLines(patchLines) ELSE emitted

ErrorMarker ==
    "\n\n<!-- ReadmeMuse: Could not automatically apply diff. Please review manually. -->\n"

\* ApplyReturnValue without the error marker: the original is returned as it is
ApplyReturnValueNoMarker(content, emitted) ==
    IF Len(emitted) = 0 THEN content ELSE JoinValues(emitted)

\* lines 490-495
ApplyReturnValue(content, emitted) ==
    IF Len(emitted) = 0 THEN content \o ErrorMarker ELSE JoinValues(emitted)

ApplyInitialState ==
    [inDiff |-> FALSE, lineIndex |-> 0, newLines |-> <<>>, threw |-> FALSE]

\* the outcome of a whole call: the returned string, or an exception
applyDiffPatch(content, patch) ==
    LET patchLines == Split(patch)
        st == ApplyLoop(ApplyInitialState, patchLines, 0, Split(content))
    IN  IF st.threw THEN [threw |-> TRUE, value |-> ""]
        ELSE [threw |-> FALSE,
              value |-> ApplyReturnValue(content, AfterFallback(patchLines, st.newLines))]

(***************************************************************************)
(* checkIfDocNeedsUpdate(docFile, input)                                   *)
(***************************************************************************)
LowerOf ==
    [c \in {"A", "B", "C", "D", "E", "F", "G", "H", "I", "J", "K", "L", "M",
            "N", "O", "P", "Q", "R", "S", "T", "U", "V", "W", "X", "Y", "Z"} |->
        CASE c = "A" -> "a" [] c = "B" -> "b" [] c = "C" -> "c" [] c = "D" -> "d"
          [] c = "E" -> "e" [] c = "F" -> "f" [] c = "G" -> "g" [] c = "H" -> "h"
          [] c = "I" -> "i" [] c = "J" -> "j" [] c = "K" -> "k" [] c = "L" -> "l"
          [] c = "M" -> "m" [] c = "N" -> "n" [] c = "O" -> "o" [] c = "P" -> "p"
          [] c = "Q" -> "q" [] c = "R" -> "r" [] c = "S" -> "s" [] c = "T" -> "t"
          [] c = "U" -> "u" [] c = "V" -> "v" [] c = "W" -> "w" [] c = "X" -> "x"
          [] c = "Y" -> "y" [] c = "Z" -> "z"]

\* s.toLowerCase()
RECURSIVE ToLowerCase(_)
ToLowerCase(s) ==
    IF Len(s) = 0 THEN ""
    ELSE (IF CharAt(s, 1) \in DOMAIN LowerOf THEN LowerOf[CharAt(s, 1)] ELSE CharAt(s, 1))
         \o ToLowerCase(Substring1(s))

exportPatterns ==
    <<"export function", "export class", "export const", "export interface",
      "export type", "// new:", "# new:">>

\* the patterns matched only after "+ "
RECURSIVE SomePatternSpacedOnly(_, _)
SomePatternSpacedOnly(patch, k) ==
    IF k > Len(exportPatterns) THEN FALSE
    ELSE IF Includes(patch, "+ " \o exportPatterns[k]) THEN TRUE
    ELSE SomePatternSpacedOnly(patch, k + 1)

\* exportPatterns.some(pattern => patch.includes(`+${pattern}`) ||
\*                                patch.includes(`+ ${pattern}`)), from pattern k on
RECURSIVE SomePattern(_, _)
SomePattern(patch, k) ==
    IF k > Len(exportPatterns) THEN FALSE
    ELSE IF Includes(patch, "+" \o exportPatterns[k])
            \/ Includes(patch, "+ " \o exportPatterns[k]) THEN TRUE
    ELSE SomePattern(patch, k + 1)

\* the callback of changedFiles.some at lines 93-99
FileHasNewCode(file) == SomePattern(ToLowerCase(file.patch), 1)

\* only the first file is asked
HasNewCodeFirstOnly(files) == Len(files) > 0 /\ FileHasNewCode(files[1])

\* input.changedFiles.some(file => ...): stops at the first file that answers true
RECURSIVE HasNewCode(_)
HasNewCode(files) ==
    IF Len(files) = 0 THEN FALSE
    ELSE IF FileHasNewCode(files[1]) THEN TRUE
    ELSE HasNewCode(Tail(files))

\* path.split("/").pop() || ""
BaseName(path) == SplitBy(path, "/")[Len(SplitBy(path, "/"))]

\* changedPaths.some(path => docFile.content.toLowerCase().includes(baseName...))
RECURSIVE DocMentionsFiles(_, _)
DocMentionsFiles(content, files) ==
    IF Len(files) = 0 THEN FALSE
    ELSE IF Includes(ToLowerCase(content), ToLowerCase(BaseName(files[1].filename))) THEN TRUE
    ELSE DocMentionsFiles(content, Tail(files))

checkIfDocNeedsUpdate(docFile, files) ==
    HasNewCode(files) \/ DocMentionsFiles(docFile.content, files)

(***************************************************************************)
(* extractNewExports(changedFiles)                                         *)
(***************************************************************************)
WordChars ==
    {"a", "b", "c", "d", "e", "f", "g", "h", "i", "j", "k", "l", "m",
     "n", "o", "p", "q", "r", "s", "t", "u", "v", "w", "x", "y", "z",
     "A", "B", "C", "D", "E", "F", "G", "H", "I", "J", "K", "L", "M",
     "N", "O", "P", "Q", "R", "S", "T", "U", "V", "W", "X", "Y", "Z",
     "0", "1", "2", "3", "4", "5", "6", "7", "8", "9", "_"}

\* length of the run of white space (\s+) of s that starts at position p
RECURSIVE WhiteRun(_, _)
WhiteRun(s, p) ==
    IF p <= Len(s) /\ CharAt(s, p) \in WhiteSpace THEN 1 + WhiteRun(s, p + 1) ELSE 0

\* length of the run of word characters (\w+) of s that starts at position p
RECURSIVE WordRun(_, _)
WordRun(s, p) ==
    IF p <= Len(s) /\ CharAt(s, p) \in WordChars THEN 1 + WordRun(s, p + 1) ELSE 0

\* length of the run of characters `.` matches (no line terminator) from position p
RECURSIVE DotRun(_, _)
DotRun(s, p) ==
    IF p <= Len(s) /\ CharAt(s, p) \notin {"\n", "\r"} THEN 1 + DotRun(s, p + 1) ELSE 0

exportKinds == <<"function", "class", "const", "interface", "type">>

\* the alternative of (function|class|const|interface|type) that stands at position p
KindAt(s, p) ==
    IF \E k \in 1..Len(exportKinds) : Lit(s, p, exportKinds[k])
    THEN exportKinds[CHOOSE k \in 1..Len(exportKinds) : Lit(s, p, exportKinds[k])]
    ELSE ""

\* the parts of export\s+(function|class|const|interface|type)\s+(\w+) matched at q
DeclKindStart(s, q) == q + 6 + WhiteRun(s, q + 6)
DeclKindEnd(s, q) == DeclKindStart(s, q) + Len(KindAt(s, DeclKindStart(s, q)))
DeclNameStart(s, q) == DeclKindEnd(s, q) + WhiteRun(s, DeclKindEnd(s, q))
DeclEnd(s, q) == DeclNameStart(s, q) + WordRun(s, DeclNameStart(s, q))

\* the declaration expression matches s at position q
ExportDeclAt(s, q) ==
    /\ Lit(s, q, "export")
    /\ DeclKindStart(s, q) > q + 6
    /\ KindAt(s, DeclKindStart(s, q)) # ""
    /\ DeclNameStart(s, q) > DeclKindEnd(s, q)
    /\ DeclEnd(s, q) > DeclNameStart(s, q)

\* `.*` is greedy and gives characters back one at a time: the declaration is
\* tried at q, then at q - 1, down to lo; 0 when it matches at none of them
RECURSIVE LastDeclStart(_, _, _)
LastDeclStart(s, q, lo) ==
    IF q < lo THEN 0
    ELSE IF ExportDeclAt(s, q) THEN q
    ELSE LastDeclStart(s, q - 1, lo)

\* where the declaration starts in the match of /\+.*export.../ that starts at
\* the "+" at position p (`.*` stays on the line of the "+"); 0 when none
DeclStartAfterPlus(s, p) == LastDeclStart(s, p + 1 + DotRun(s, p + 1), p + 1)

\* the expression of line 163 matches s from position p
PlusExportAt(s, p) == Lit(s, p, "+") /\ DeclStartAfterPlus(s, p) # 0

\* the end (exclusive) of the match from position p
PlusExportEnd(s, p) == DeclEnd(s, DeclStartAfterPlus(s, p))

\* patch.match(/.../g): the matched texts, leftmost first, searched from position from
RECURSIVE PlusExportMatches(_, _)
PlusExportMatches(s, from) ==
    IF from > Len(s) THEN <<>>
    ELSE IF PlusExportAt(s, from)
    THEN LET end == PlusExportEnd(s, from)
         IN  <<Slice(s, from, end)>> \o PlusExportMatches(s, end)
    ELSE PlusExportMatches(s, from + 1)

\* where the unanchored declaration expression first matches m, from q on
RECURSIVE FirstDeclStart(_, _)
FirstDeclStart(m, q) == IF ExportDeclAt(m, q) THEN q ELSE FirstDeclStart(m, q + 1)

\* match.match(/export\s+(?:...)\s+(\w+)/)[1]: the name of the first declaration
NameOfMatch(m) ==
    Slice(m, DeclNameStart(m, FirstDeclStart(m, 1)), DeclEnd(m, FirstDeclStart(m, 1)))

\* the names pushed for one file (lines 161-172)
ExportsOfPatch(patch) ==
    LET matches == PlusExportMatches(patch, 1)
    IN  [k \in 1..Len(matches) |-> NameOfMatch(matches[k])]

\* the array `exports` after the loop over the changed files
RECURSIVE AllExports(_)
AllExports(files) ==
    IF Len(files) = 0 THEN <<>>
    ELSE ExportsOfPatch(files[1].patch) \o AllExports(Tail(files))

\* only an element that repeats the one before it is left out
RECURSIVE DedupeAdjacent(_)
DedupeAdjacent(arr) ==
    IF Len(arr) <= 1 THEN arr
    ELSE LET front == DedupeAdjacent(SubSeq(arr, 1, Len(arr) - 1))
         IN  IF arr[Len(arr) - 1] = arr[Len(arr)]
             THEN front ELSE Append(front, arr[Len(arr)])

\* [...new Set(arr)]: the first occurrence of every element, in order
RECURSIVE Dedupe(_)
Dedupe(arr) ==
    IF Len(arr) = 0 THEN <<>>
    ELSE LET front == Dedupe(SubSeq(arr, 1, Len(arr) - 1))
         IN  IF \E k \in 1..Len(front) : front[k] = arr[Len(arr)]
             THEN front ELSE Append(front, arr[Len(arr)])

extractNewExports(files) == Dedupe(AllExports(files))

(***************************************************************************)
(* generateDiffPatch and analyzeDocumentationFile                          *)
(***************************************************************************)
prTitle == "Add X"

\* lines.findIndex(line => line.trim().toLowerCase() === header.toLowerCase()),
\* searched from index k on
RECURSIVE FindIndex(_, _, _)
FindIndex(docLines, header, k) ==
    IF k >= Len(docLines) THEN 0 - 1
    ELSE IF ToLowerCase(Trim(docLines[k + 1])) = ToLowerCase(header) THEN k
    ELSE FindIndex(docLines, header, k + 1)

\* findSectionIndex(lines, ...headers): -1 when no header is found
RECURSIVE findSectionIndex(_, _)
findSectionIndex(docLines, headers) ==
    IF Len(headers) = 0 THEN 0 - 1
    ELSE IF FindIndex(docLines, headers[1], 0) # 0 - 1 THEN FindIndex(docLines, headers[1], 0)
    ELSE findSectionIndex(docLines, Tail(headers))

\* arr.splice(at, 0, ...items) on a copy of arr
Splice(arr, at, items) == SubSeq(arr, 1, at) \o items \o SubSeq(arr, at + 1, Len(arr))

HasChangelogHeader(lowered) ==
    \/ Includes(lowered, "## changes")
    \/ Includes(lowered, "## changelog")
    \/ Includes(lowered, "## recent updates")

hasChangelogSection(content) == HasChangelogHeader(ToLowerCase(content))

\* lines 131-132: the lines with the "Recent Changes" section spliced in
WithChangesSection(docLines) ==
    Splice(docLines, Min(3, Len(docLines)),
           <<"", "## Recent Changes", "", "- " \o prTitle, "">>)

\* the back quote of the source text; a TLA+ string cannot hold that character,
\* so the apostrophe, which no code of the model inspects either, stands for it
BackQuote == "'"

\* line 144: one list item per export, each quoting the name, joined by "\n"
exportDocs(newExports) ==
    Join([k \in 1..Len(newExports) |->
              "- " \o BackQuote \o newExports[k] \o BackQuote \o ": [Add description]"])

\* line 145: the lines with the export list spliced in after the section header
WithExportDocs(docLines, at, newExports) ==
    Splice(docLines, at + 1, <<"", exportDocs(newExports), "">>)

NoPatch == [isNull |-> TRUE, value |-> ""]
Patch(text) == [isNull |-> FALSE, value |-> text]

apiHeaders == <<"## API", "## Usage", "## Features">>

\* the test of line 129 without the comparison of the path
SuggestsChangesSectionAnyPath(docFile) ==
    ~hasChangelogSection(docFile.content)

\* the first return of generateDiffPatch is taken (line 129)
SuggestsChangesSection(docFile) ==
    ~hasChangelogSection(docFile.content) /\ docFile.path = "README.md"

\* the second return of generateDiffPatch is taken (lines 138-142)
SuggestsExportDocs(docFile, newExports) ==
    /\ ~SuggestsChangesSection(docFile)
    /\ Len(newExports) > 0
    /\ docFile.path = "README.md"
    /\ findSectionIndex(Split(docFile.content), apiHeaders) >= 0

\* updatedLines when generateDiffPatch returns (lines 122, 132, 145)
updatedLines(docFile, newExports) ==
    LET docLines == Split(docFile.content)
    IN  IF SuggestsChangesSection(docFile)
        THEN WithChangesSection(docLines)
        ELSE IF SuggestsExportDocs(docFile, newExports)
        THEN WithExportDocs(docLines, findSectionIndex(docLines, apiHeaders), newExports)
        ELSE docLines

\* generateDiffPatch: the patch text, or null
generateDiffPatch(docFile, files) ==
    LET newExports == extractNewExports(files)
    IN  IF SuggestsChangesSection(docFile) \/ SuggestsExportDocs(docFile, newExports)
        THEN Patch(createUnifiedDiff(docFile.path, Split(docFile.content),
                                     updatedLines(docFile, newExports)))
        ELSE NoPatch

\* input.changedFiles.reduce((sum, f) => sum + f.additions, 0)
RECURSIVE SumAdditions(_)
SumAdditions(files) ==
    IF Len(files) = 0 THEN 0 ELSE files[1].additions + SumAdditions(Tail(files))

generateReasoning(files) ==
    "This PR modifies " \o NumberToString(Len(files)) \o " file(s) with "
    \o NumberToString(SumAdditions(files)) \o " addition(s). "
    \o "Documentation should be updated to reflect these changes and maintain accuracy."

\* lines 59-71 of analyzeDocumentationFile: the suggestions it adds (none for null)
\* the suggestion is built whatever generateDiffPatch returned
SuggestionsForUnguarded(docFile, files) ==
    <<[filePath |-> docFile.path,
       diffPatch |-> generateDiffPatch(docFile, files).value,
       summary |-> "Update " \o docFile.path \o " based on PR changes",
       reasoning |-> generateReasoning(files)]>>

SuggestionsFor(docFile, files) ==
    LET generated == generateDiffPatch(docFile, files)
    IN  IF generated.isNull \/ generated.value = ""
        THEN <<>>
        ELSE <<[filePath |-> docFile.path,
                diffPatch |-> generated.value,
                summary |-> "Update " \o docFile.path \o " based on PR changes",
                reasoning |-> generateReasoning(files)]>>

(***************************************************************************)
(* The calls as steps.                                                     *)
(***************************************************************************)
DocPath == "README.md"

\* createUnifiedDiff is called; its patch is then applied to the text it was
\* computed from, as applyDocumentationChange does with the file it reads.
CallCreateUnifiedDiff ==
    /\ pc = "synthesize"
    /\ diffPatch' = createUnifiedDiff(DocPath, original, modified)
    /\ originalContent' = Join(original)
    /\ lines' = Split(diffPatch')
    /\ originalLines' = Split(originalContent')
    /\ pc' = "loop"
    /\ UNCHANGED <<original, modified, i, inDiff, lineIndex, newLines, result>>
    /\ UNCHANGED analysisVars
    /\ UNCHANGED <<draftVars, hostVars, installVars, matchVars, exports, passVars, requestVars>>

\* one iteration of applyDiffPatch's main loop (lines 430-474); an exception
\* raised in it leaves the function (pc = "threw")
ApplyLine ==
    /\ pc = "loop"
    /\ i < Len(lines)
    /\ LET st == ApplyLineStep([inDiff |-> inDiff, lineIndex |-> lineIndex,
                                newLines |-> newLines, threw |-> FALSE],
                               At(lines, i), originalLines)
       IN  /\ inDiff' = st.inDiff
           /\ lineIndex' = st.lineIndex
           /\ newLines' = st.newLines
           /\ pc' = IF st.threw THEN "threw" ELSE "loop"
    /\ i' = i + 1
    /\ UNCHANGED <<original, modified, originalContent, diffPatch, lines, originalLines,
                   result>>
    /\ UNCHANGED analysisVars
    /\ UNCHANGED <<draftVars, hostVars, installVars, matchVars, exports, passVars, requestVars>>

\* the main loop is over: the second pass (lines 478-487)
ApplyFallback ==
    /\ pc = "loop"
    /\ i >= Len(lines)
    /\ newLines' = AfterFallback(lines, newLines)
    /\ pc' = "return"
    /\ UNCHANGED <<original, modified, originalContent, diffPatch, lines, originalLines,
                   i, inDiff, lineIndex, result>>
    /\ UNCHANGED analysisVars
    /\ UNCHANGED <<draftVars, hostVars, installVars, matchVars, exports, passVars, requestVars>>

\* lines 490-495
ApplyReturn ==
    /\ pc = "return"
    /\ result' = ApplyReturnValue(originalContent, newLines)
    /\ pc' = "done"
    /\ UNCHANGED <<original, modified, originalContent, diffPatch, lines, originalLines,
                   i, inDiff, lineIndex, newLines>>
    /\ UNCHANGED analysisVars
    /\ UNCHANGED <<draftVars, hostVars, installVars, matchVars, exports, passVars, requestVars>>

ApplyNext == ApplyLine \/ ApplyFallback \/ ApplyReturn

\* the locals of applyDiffPatch at its entry (lines 423-428)
ApplyLocalsInit ==
    /\ i = 0
    /\ inDiff = ApplyInitialState.inDiff
    /\ lineIndex = ApplyInitialState.lineIndex
    /\ newLines = ApplyInitialState.newLines
    /\ result = ""

\* no error has been thrown
NoError == [raised |-> FALSE, status |-> 0]

\* no draft pull request is being created
DraftIdle ==
    /\ baseSha = ""
    /\ suggestionIndex = 0
    /\ currentContent = ""
    /\ currentSha = Undefined
    /\ draftNumber = 0

\* no event is being handled
HostIdle ==
    /\ pr = [number |-> 0, title |-> "", baseRef |-> ""]
    /\ calls = <<>>
    /\ errorLog = <<>>
    /\ thrown = NoError

\* a value read from the configuration file: a boolean, a string, or none
Bool(b) == [kind |-> "boolean", bool |-> b, text |-> ""]
Text(t) == [kind |-> "string", bool |-> FALSE, text |-> t]
Absent == [kind |-> "undefined", bool |-> FALSE, text |-> ""]

\* src/types/config.ts, lines 33-45
DEFAULT_CONFIG ==
    [watchPaths |-> <<"src/**/*", "lib/**/*", "api/**/*">>,
     documentationFiles |-> <<"README.md", "docs/**/*.md">>,
     createDraftPR |-> Bool(FALSE)]

NoPayload == [action |-> "", repositories |-> <<>>, repositories_added |-> <<>>]

\* no installation event is being handled
InstallIdle ==
    /\ payload = NoPayload
    /\ repoIndex = 0

\* no pull request event is being handled
RequestIdle ==
    /\ config = DEFAULT_CONFIG
    /\ matchedPaths = <<>>
    /\ pathIndex = 0
    /\ prFiles = <<>>

\* index.ts, line 11: the events that start a pass
Passes == {"opened", "synchronize"}

\* the host has no sync branch
NoBranch == [exists |-> FALSE, generation |-> 0, version |-> 0]

\* no pass is running
PassesIdle ==
    /\ passPc = [p \in Passes |-> "done"]
    /\ branch = NoBranch
    /\ passRef = [p \in Passes |-> 0]
    /\ passSha = [p \in Passes |-> Undefined]
    /\ commits = <<>>
    /\ drafts = {}

\* matchFiles and shouldAnalyzePR are not called on their own
MatchIdle ==
    /\ fileList = <<>>
    /\ patternList = <<>>
    /\ matchedFiles = <<>>
    /\ shouldAnalyze = FALSE

\* no analysis is running
AnalysisIdle ==
    /\ docFiles = <<>>
    /\ changedFiles = <<>>
    /\ docIndex = 0
    /\ needsUpdate = FALSE
    /\ suggestions = <<>>

\* all sequences over S of length at most n
SeqUpTo(S, n) == UNION {[1..k -> S] : k \in 0..n}

(***************************************************************************)
(* Specification SpecDiff: a patch is synthesized from two line arrays     *)
(* and applied to the first.                                               *)
(***************************************************************************)
DocLines == {"a", "b"}

\* a README and the same README with a "Recent Changes" section inserted
ReadmeLines == <<"# Proj", "", "Body">>
ReadmeWithChanges == <<"# Proj", "", "## Recent Changes", "", "- Added X", "", "Body">>

InitDiff ==
    /\ pc = "synthesize"
    /\ \/ /\ original \in SeqUpTo(DocLines, MaxOriginal)
          /\ modified \in SeqUpTo(DocLines, MaxModified)
       \/ /\ original = ReadmeLines
          /\ modified = ReadmeWithChanges
    /\ original # modified
    /\ originalContent = ""
    /\ diffPatch = ""
    /\ lines = <<>>
    /\ originalLines = <<>>
    /\ ApplyLocalsInit
    /\ DraftIdle
    /\ InstallIdle
    /\ RequestIdle
    /\ MatchIdle
    /\ exports = <<>>
    /\ PassesIdle
    /\ HostIdle
    /\ AnalysisIdle

NextDiff == CallCreateUnifiedDiff \/ ApplyNext

SpecDiff == InitDiff /\ [][NextDiff]_vars

(***************************************************************************)
(* Specification SpecApply: applyDiffPatch on an arbitrary patch text.     *)
(***************************************************************************)
OriginalContents == {"", "a", "a\nb"}

FileHeaders == {<<>>, <<"--- a/README.md", "+++ b/README.md">>}

PatchLineAlphabet ==
    {"@@ -1,1 +1,2 @@", "@@ -0,0 +1,1 @@", "@@ bad @@",
     "+x", "-a", " a", "", "not a real diff"}

InitApply ==
    /\ pc = "loop"
    /\ original = <<>>
    /\ modified = <<>>
    /\ originalContent \in OriginalContents
    /\ \E header \in FileHeaders, body \in SeqUpTo(PatchLineAlphabet, MaxPatchBody) :
           diffPatch = Join(header \o body)
    /\ lines = Split(diffPatch)
    /\ originalLines = Split(originalContent)
    /\ ApplyLocalsInit
    /\ DraftIdle
    /\ InstallIdle
    /\ RequestIdle
    /\ MatchIdle
    /\ exports = <<>>
    /\ PassesIdle
    /\ HostIdle
    /\ AnalysisIdle

SpecApply == InitApply /\ [][ApplyNext]_vars

(***************************************************************************)
(* Specification SpecHunk: applyDiffPatch on the lines of one hunk: a hunk *)
(* header that parses, then insertions, deletions, context lines and blank *)
(* lines, among them the deletion of a horizontal rule ("---" in the       *)
(* original) and the insertion of a line that starts with "++".            *)
(***************************************************************************)
HunkOriginals == {"a", "a\n---"}

HunkHeaders == {"@@ -1,1 +1,2 @@", "@@ -2,1 +2,1 @@", "@@ -0,0 +1,1 @@"}

HunkLineAlphabet == {"+x", "+++x", "-a", "----", " a", " z", " ", ""}

InitHunk ==
    /\ pc = "loop"
    /\ original = <<>>
    /\ modified = <<>>
    /\ originalContent \in HunkOriginals
    /\ \E header \in HunkHeaders, body \in SeqUpTo(HunkLineAlphabet, MaxPatchBody) :
           diffPatch = Join(<<header>> \o body)
    /\ lines = Split(diffPatch)
    /\ originalLines = Split(originalContent)
    /\ ApplyLocalsInit
    /\ DraftIdle
    /\ InstallIdle
    /\ RequestIdle
    /\ MatchIdle
    /\ exports = <<>>
    /\ PassesIdle
    /\ HostIdle
    /\ AnalysisIdle

SpecHunk == InitHunk /\ [][ApplyNext]_vars

(***************************************************************************)
(* Specification SpecAnalyze: generateDocumentationSuggestions on a list   *)
(* of documentation files and a list of changed files.                     *)
(***************************************************************************)
\* the file analysed by the current iteration of the loop at line 33
DocFile == docFiles[docIndex + 1]

\* line 53: analyzeDocumentationFile asks whether the file needs an update
CheckIfDocNeedsUpdate ==
    /\ pc = "check"
    /\ docIndex < Len(docFiles)
    /\ needsUpdate' = checkIfDocNeedsUpdate(DocFile, changedFiles)
    /\ pc' = "generate"
    /\ UNCHANGED <<docFiles, changedFiles, docIndex, suggestions>>
    /\ UNCHANGED patchVars
    /\ UNCHANGED <<draftVars, hostVars, installVars, matchVars, exports, passVars, requestVars>>

\* lines 55-71 and 35-37: no suggestion when no update is needed or no patch is
\* generated; otherwise the suggestion is pushed
AnalyzeDocumentationFile ==
    /\ pc = "generate"
    /\ suggestions' = IF needsUpdate
                      THEN suggestions \o SuggestionsFor(DocFile, changedFiles)
                      ELSE suggestions
    /\ docIndex' = docIndex + 1
    /\ pc' = "check"
    /\ UNCHANGED <<docFiles, changedFiles, needsUpdate>>
    /\ UNCHANGED patchVars
    /\ UNCHANGED <<draftVars, hostVars, installVars, matchVars, exports, passVars, requestVars>>

\* line 40
ReturnSuggestions ==
    /\ pc = "check"
    /\ docIndex >= Len(docFiles)
    /\ pc' = "returned"
    /\ UNCHANGED analysisVars
    /\ UNCHANGED patchVars
    /\ UNCHANGED <<draftVars, hostVars, installVars, matchVars, exports, passVars, requestVars>>

Change(name, patch) == [filename |-> name, patch |-> patch, additions |-> 1]

FileChanges ==
    {Change("src/a.ts", "@@ -0,0 +1,1 @@\n+export function foo() {}"),
     Change("a.ts", "@@ ... @@\n-export function foo() {}\n+export function foo() { return 1; }"),
     Change("src/b.ts", "@@ -1,2 +1,2 @@ export class Ctx {\n-  old +export const gone = 1\n+  fresh"),
     Change("lib/util.py", "@@ -1,1 +1,2 @@\n x = 1\n+y = 2"),
     Change("src/k.ts", "@@ -0,0 +1,1 @@\n+  export class K {}")}

Doc(path, content) == [path |-> path, content |-> content]

DocumentationFiles ==
    {Doc("README.md", "# Proj\nSee A.ts"),
     Doc("README.md", "## API\n## Changes"),
     Doc("docs/api.md", "# Api")}

InitAnalyze ==
    /\ pc = "check"
    /\ docFiles \in SeqUpTo(DocumentationFiles, MaxDocFiles)
    /\ changedFiles \in SeqUpTo(FileChanges, MaxChangedFiles)
    /\ docIndex = 0
    /\ needsUpdate = FALSE
    /\ suggestions = <<>>
    /\ original = <<>>
    /\ modified = <<>>
    /\ originalContent = ""
    /\ diffPatch = ""
    /\ lines = <<>>
    /\ originalLines = <<>>
    /\ ApplyLocalsInit
    /\ DraftIdle
    /\ InstallIdle
    /\ RequestIdle
    /\ MatchIdle
    /\ exports = <<>>
    /\ PassesIdle
    /\ HostIdle

NextAnalyze == CheckIfDocNeedsUpdate \/ AnalyzeDocumentationFile \/ ReturnSuggestions

SpecAnalyze == InitAnalyze /\ [][NextAnalyze]_vars

(***************************************************************************)
(* Specification SpecSuggest: generateDocumentationSuggestions on matched  *)
(* documentation files of several paths.                                   *)
(***************************************************************************)
MaxMatchedDocs == 2
MaxSuggestChanges == 1

MatchedDocs ==
    {Doc("README.md", "# Proj"),
     Doc("README.md", "## Changes"),
     Doc("README.md", "## API\n## Changes"),
     Doc("docs/api.md", "# Api"),
     Doc("pkg/README.md", "## API")}

SuggestChanges ==
    {Change("src/a.ts", "@@ -0,0 +1,1 @@\n+export function foo() {}"),
     Change("src/n.ts", "@@ -1,1 +1,2 @@\n x\n+// new: y")}

InitSuggest ==
    /\ pc = "check"
    /\ docFiles \in SeqUpTo(MatchedDocs, MaxMatchedDocs)
    /\ changedFiles \in SeqUpTo(SuggestChanges, MaxSuggestChanges)
    /\ docIndex = 0
    /\ needsUpdate = FALSE
    /\ suggestions = <<>>
    /\ original = <<>>
    /\ modified = <<>>
    /\ originalContent = ""
    /\ diffPatch = ""
    /\ lines = <<>>
    /\ originalLines = <<>>
    /\ ApplyLocalsInit
    /\ DraftIdle
    /\ InstallIdle
    /\ RequestIdle
    /\ MatchIdle
    /\ exports = <<>>
    /\ PassesIdle
    /\ HostIdle

SpecSuggest == InitSuggest /\ [][NextAnalyze]_vars

(***************************************************************************)
(* Calls to the host's API (context.octokit.rest) and errors.              *)
(***************************************************************************)
\* the HTTP status of "not found"
NotFound == 404

\* the statuses a call can end with: success, not found, another failure
Statuses == {200, NotFound, 500}

\* the error a call that ended with status st rejects with
ErrorOf(st) == [raised |-> TRUE, status |-> st]

\* one call: the method, its arguments, the status it ended with, its data
Call(api, args, st, data) == [api |-> api, args |-> args, status |-> st, data |-> data]

NoData == [none |-> TRUE]

\* Buffer.from(text).toString("base64"): the encoded form of text
Base64(text) == [base64 |-> text]

\* Buffer.from(encoded, "base64").toString("utf-8")
FromBase64(encoded) == encoded.base64

(***************************************************************************)
(* createDraftPRWithChanges(context, pr, suggestions) and                  *)
(* applyDocumentationChange(context, repository, branchName, suggestion)   *)
(***************************************************************************)
\* line 263
BranchName(p) == "readmemuse-sync-" \o NumberToString(p.number)

\* lines 338-341: the catch of createDraftPRWithChanges logs the error
LoggedByCreateDraftPR(log, err) ==
    Append(log, [by |-> "createDraftPRWithChanges", error |-> err])

\* a catch that throws an error of its own
RethrownAsNewError(err) == [raised |-> TRUE, status |-> 0]

\* line 340: and throws it again
RethrownByCreateDraftPR(err) == err

\* lines 394-397: the catch of applyDocumentationChange logs and rethrows
LoggedByApplyChange(log, err) ==
    Append(log, [by |-> "applyDocumentationChange", error |-> err])

\* every error of the branch lookup and deletion is taken for a missing branch
MissingBranchAlways(err) == TRUE

\* lines 293-298: the error of the branch lookup or deletion is swallowed
MissingBranch(err) == ~(err.status # NotFound)

\* the function is left by the throw of line 340
FailCreateDraftPR(log, err) ==
    /\ errorLog' = LoggedByCreateDraftPR(log, err)
    /\ thrown' = RethrownByCreateDraftPR(err)
    /\ pc' = "threw"

\* what git.getRef can answer for the base branch
Shas == {"base-sha-123"}

\* lines 269-275: the SHA of the base branch is read
GetBaseRef ==
    /\ pc = "getBaseRef"
    /\ \E st \in Statuses, sha \in Shas :
        /\ calls' = Append(calls, Call("git.getRef", [ref |-> "heads/" \o pr.baseRef],
                                       st, IF st = 200 THEN [sha |-> sha] ELSE NoData))
        /\ IF st = 200
           THEN /\ baseSha' = sha
                /\ pc' = "lookupBranch"
                /\ UNCHANGED <<errorLog, thrown>>
           ELSE /\ FailCreateDraftPR(errorLog, ErrorOf(st))
                /\ UNCHANGED baseSha
    /\ UNCHANGED <<pr, suggestionIndex, currentContent, currentSha, draftNumber>>
    /\ UNCHANGED <<patchVars, analysisVars, installVars, matchVars, exports, passVars, requestVars>>

\* lines 278-283 and 293-298: is there a sync branch already?
LookupBranch ==
    /\ pc = "lookupBranch"
    /\ \E st \in Statuses :
        /\ calls' = Append(calls, Call("git.getRef", [ref |-> "heads/" \o BranchName(pr)],
                                       st, NoData))
        /\ IF st = 200
           THEN pc' = "deleteRef" /\ UNCHANGED <<errorLog, thrown>>
           ELSE IF MissingBranch(ErrorOf(st))
           THEN pc' = "createRef" /\ UNCHANGED <<errorLog, thrown>>
           ELSE FailCreateDraftPR(errorLog, ErrorOf(st))
    /\ UNCHANGED <<pr, draftVars, patchVars, analysisVars, installVars, matchVars, exports, passVars, requestVars>>

\* lines 286-298: the existing sync branch is deleted
DeleteRef ==
    /\ pc = "deleteRef"
    /\ \E st \in Statuses :
        /\ calls' = Append(calls, Call("git.deleteRef", [ref |-> "heads/" \o BranchName(pr)],
                                       st, NoData))
        /\ IF st = 200 \/ MissingBranch(ErrorOf(st))
           THEN pc' = "createRef" /\ UNCHANGED <<errorLog, thrown>>
           ELSE FailCreateDraftPR(errorLog, ErrorOf(st))
    /\ UNCHANGED <<pr, draftVars, patchVars, analysisVars, installVars, matchVars, exports, passVars, requestVars>>

\* lines 301-313: the sync branch is created from the base SHA
CreateRef ==
    /\ pc = "createRef"
    /\ \E st \in Statuses :
        /\ calls' = Append(calls, Call("git.createRef",
                                       [ref |-> "refs/heads/" \o BranchName(pr),
                                        sha |-> baseSha], st, NoData))
        /\ IF st = 200
           THEN /\ pc' = IF Len(suggestions) > 0 THEN "getContent" ELSE "createPR"
                /\ UNCHANGED <<errorLog, thrown>>
           ELSE FailCreateDraftPR(errorLog, ErrorOf(st))
    /\ UNCHANGED <<pr, draftVars, patchVars, analysisVars, installVars, matchVars, exports, passVars, requestVars>>

\* the suggestion applied by the running call of applyDocumentationChange
Suggestion == suggestions[suggestionIndex + 1]

\* what repos.getContent can answer when it succeeds: a file with its content,
\* an entry that has a sha and no content (a symbolic link, a submodule), or
\* a directory listing, which has neither
ContentResponses ==
    {[hasContent |-> TRUE, content |-> Base64("content"), sha |-> Str("file-sha-123")],
     [hasContent |-> FALSE, content |-> Base64(""), sha |-> Str("link-sha-456")],
     [hasContent |-> FALSE, content |-> Base64(""), sha |-> Undefined]}

\* the application of the suggestion is left by the throw of line 396, which the
\* catch of createDraftPRWithChanges catches
FailApplyChange(err) == FailCreateDraftPR(LoggedByApplyChange(errorLog, err), err)

\* lines 355-377: the file is read on the sync branch
GetContent ==
    /\ pc = "getContent"
    /\ \E st \in Statuses, response \in ContentResponses :
        /\ calls' = Append(calls, Call("repos.getContent",
                                       [path |-> Suggestion.filePath, ref |-> BranchName(pr)],
                                       st, IF st = 200 THEN response ELSE NoData))
        /\ IF st = 200
           THEN /\ currentContent' = IF response.hasContent
                                     THEN FromBase64(response.content) ELSE ""
                /\ currentSha' = IF response.hasContent THEN response.sha ELSE Undefined
                /\ pc' = "commit"
                /\ UNCHANGED <<errorLog, thrown>>
           ELSE IF st = NotFound
           THEN /\ currentContent' = ""
                /\ currentSha' = Undefined
                /\ pc' = "commit"
                /\ UNCHANGED <<errorLog, thrown>>
           ELSE /\ FailApplyChange(ErrorOf(st))
                /\ UNCHANGED <<currentContent, currentSha>>
    /\ UNCHANGED <<pr, baseSha, suggestionIndex, draftNumber>>
    /\ UNCHANGED <<patchVars, analysisVars, installVars, matchVars, exports, passVars, requestVars>>

\* the message of the commit
CommitMessagePlain(suggestion) == suggestion.summary

\* line 387
CommitMessage(suggestion) == "docs: " \o suggestion.summary

\* lines 380-393: the patch is applied and the result committed
CommitChange ==
    /\ pc = "commit"
    /\ IF applyDiffPatch(currentContent, Suggestion.diffPatch).threw
       THEN /\ FailApplyChange(ErrorOf(0))
            /\ UNCHANGED <<calls, suggestionIndex>>
       ELSE \E st \in Statuses :
            /\ calls' = Append(calls, Call("repos.createOrUpdateFileContents",
                   [path |-> Suggestion.filePath,
                    message |-> CommitMessage(Suggestion),
                    content |-> Base64(applyDiffPatch(currentContent,
                                                      Suggestion.diffPatch).value),
                    branch |-> BranchName(pr),
                    sha |-> currentSha], st, NoData))
            /\ IF st = 200
               THEN /\ suggestionIndex' = suggestionIndex + 1
                    /\ pc' = IF suggestionIndex + 1 < Len(suggestions)
                             THEN "getContent" ELSE "createPR"
                    /\ UNCHANGED <<errorLog, thrown>>
               ELSE /\ FailApplyChange(ErrorOf(st))
                    /\ UNCHANGED suggestionIndex
    /\ UNCHANGED <<pr, baseSha, currentContent, currentSha, draftNumber>>
    /\ UNCHANGED <<patchVars, analysisVars, installVars, matchVars, exports, passVars, requestVars>>

\* lines 516-523 of formatDraftPRBody: the parts of the suggestions from index k on
RECURSIVE SuggestionParts(_, _)
SuggestionParts(list, k) ==
    IF k > Len(list) THEN <<>>
    ELSE <<"#### " \o list[k].filePath, "",
           "**Summary:** " \o list[k].summary, "",
           "**Reasoning:** " \o list[k].reasoning, "">>
         \o SuggestionParts(list, k + 1)

\* formatDraftPRBody(pr, suggestions); the pictograph that opens the first
\* heading and the first note is left out
formatDraftPRBody(p, list) ==
    Join(<<"## ReadmeMuse: Automated Documentation Updates", "",
           "This draft PR contains suggested documentation updates based on changes in PR #"
               \o NumberToString(p.number) \o ".", "",
           "### Original PR", "",
           "**Title:** " \o p.title,
           "**Link:** #" \o NumberToString(p.number), "",
           "### Suggested Changes", "">>
         \o SuggestionParts(list, 1)
         \o <<"---", "",
              "*This draft PR was automatically created by ReadmeMuse. Review the changes and merge when ready.*",
              "",
              "*You can edit these files directly in this PR or close it if the suggestions are not needed.*">>)

\* the numbers the host can give the new pull request
DraftNumbers == {43, 8}

\* lines 316-326: the draft pull request is opened
CreateDraftPR ==
    /\ pc = "createPR"
    /\ \E st \in Statuses, n \in DraftNumbers :
        /\ calls' = Append(calls, Call("pulls.create",
               [title |-> "ReadmeMuse: Documentation updates for PR #"
                          \o NumberToString(pr.number),
                head |-> BranchName(pr),
                base |-> pr.baseRef,
                body |-> formatDraftPRBody(pr, suggestions),
                draft |-> TRUE], st, IF st = 200 THEN [number |-> n] ELSE NoData))
        /\ IF st = 200
           THEN /\ draftNumber' = n
                /\ pc' = "comment"
                /\ UNCHANGED <<errorLog, thrown>>
           ELSE /\ FailCreateDraftPR(errorLog, ErrorOf(st))
                /\ UNCHANGED draftNumber
    /\ UNCHANGED <<pr, baseSha, suggestionIndex, currentContent, currentSha>>
    /\ UNCHANGED <<patchVars, analysisVars, installVars, matchVars, exports, passVars, requestVars>>

\* lines 333-335: the body of the comment on the original pull request
DraftComment(n) ==
    "## ReadmeMuse: Documentation Update Draft PR Created\n\n"
    \o "I've created a draft PR with suggested documentation updates: #"
    \o NumberToString(n) \o "\n\n"
    \o "Review and merge the draft PR to apply the changes, or edit it as needed."

\* lines 329-336: the original pull request is told about the draft
CommentOnPR ==
    /\ pc = "comment"
    /\ \E st \in Statuses :
        /\ calls' = Append(calls, Call("issues.createComment",
               [issue_number |-> pr.number, body |-> DraftComment(draftNumber)], st, NoData))
        /\ IF st = 200
           THEN pc' = "done" /\ UNCHANGED <<errorLog, thrown>>
           ELSE FailCreateDraftPR(errorLog, ErrorOf(st))
    /\ UNCHANGED <<pr, draftVars, patchVars, analysisVars, installVars, matchVars, exports, passVars, requestVars>>

(***************************************************************************)
(* Specification SpecExports: extractNewExports called on its own, on      *)
(* changed files that declare the same identifier on several added lines   *)
(* and in several files.                                                   *)
(***************************************************************************)
MaxExportFiles == 3

\* lines 157-176: extractNewExports returns
CallExtractNewExports ==
    /\ pc = "extractNewExports"
    /\ exports' = extractNewExports(changedFiles)
    /\ pc' = "done"
    /\ UNCHANGED analysisVars
    /\ UNCHANGED <<patchVars, draftVars, hostVars, installVars, matchVars, requestVars, passVars>>

\* the changed files extractNewExports is called with
ExportChanges ==
    {Change("src/a.ts", "@@ -0,0 +1,2 @@\n+export const foo\n+export type foo"),
     Change("src/b.ts", "@@ -1,1 +1,3 @@\n x\n+export class Bar\n+export const foo"),
     Change("src/c.ts", "@@ -0,0 +1,1 @@\n+export class Bar"),
     Change("lib/x.py", "@@ -1,1 +1,2 @@\n x = 1\n+y = 2")}

InitExports ==
    /\ pc = "extractNewExports"
    /\ changedFiles \in SeqUpTo(ExportChanges, MaxExportFiles)
    /\ exports = <<>>
    /\ PassesIdle
    /\ docFiles = <<>>
    /\ docIndex = 0
    /\ needsUpdate = FALSE
    /\ suggestions = <<>>
    /\ original = <<>>
    /\ modified = <<>>
    /\ originalContent = ""
    /\ diffPatch = ""
    /\ lines = <<>>
    /\ originalLines = <<>>
    /\ ApplyLocalsInit
    /\ DraftIdle
    /\ InstallIdle
    /\ RequestIdle
    /\ MatchIdle
    /\ HostIdle

SpecExports == InitExports /\ [][CallExtractNewExports]_vars

(***************************************************************************)
(* Specification SpecChangelog: generateDiffPatch on one README.md, and    *)
(* applyDiffPatch on the patch it returns and the content it was made for. *)
(***************************************************************************)
MaxReadme == 5

\* generateDiffPatch is called for the file; the patch it returns is applied
\* to the content of the file
CallGenerateDiffPatch ==
    /\ pc = "generateDiffPatch"
    /\ LET patch == generateDiffPatch(docFiles[1], changedFiles)
       IN  IF patch.isNull
           THEN /\ pc' = "returned"
                /\ UNCHANGED <<originalContent, diffPatch, lines, originalLines>>
           ELSE /\ diffPatch' = patch.value
                /\ originalContent' = docFiles[1].content
                /\ lines' = Split(diffPatch')
                /\ originalLines' = Split(originalContent')
                /\ pc' = "loop"
    /\ UNCHANGED <<original, modified, i, inDiff, lineIndex, newLines, result>>
    /\ UNCHANGED analysisVars
    /\ UNCHANGED <<draftVars, hostVars, installVars, matchVars, exports, passVars, requestVars>>

\* the lines a README.md is made of
ReadmeLineAlphabet == {"# Proj", "", "## Changelog"}

InitChangelog ==
    /\ pc = "generateDiffPatch"
    /\ \E readme \in SeqUpTo(ReadmeLineAlphabet, MaxReadme) :
           docFiles = <<Doc("README.md", Join(readme))>>
    /\ changedFiles = <<>>
    /\ docIndex = 0
    /\ needsUpdate = FALSE
    /\ suggestions = <<>>
    /\ original = <<>>
    /\ modified = <<>>
    /\ originalContent = ""
    /\ diffPatch = ""
    /\ lines = <<>>
    /\ originalLines = <<>>
    /\ ApplyLocalsInit
    /\ DraftIdle
    /\ InstallIdle
    /\ RequestIdle
    /\ MatchIdle
    /\ exports = <<>>
    /\ PassesIdle
    /\ HostIdle

NextChangelog == CallGenerateDiffPatch \/ ApplyNext

SpecChangelog == InitChangelog /\ [][NextChangelog]_vars

(***************************************************************************)
(* Specification SpecDraft: createDraftPRWithChanges on a list of          *)
(* suggestions, every call to the host ending in any of its statuses.      *)
(***************************************************************************)
PullRequests ==
    {[number |-> 42, title |-> "Test PR", baseRef |-> "main"],
     [number |-> 7, title |-> "Add X", baseRef |-> "develop"]}

DraftSuggestions ==
    {[filePath |-> "README.md", diffPatch |-> "+ New content",
      summary |-> "Update README", reasoning |-> "Changes needed"],
     [filePath |-> "docs/API.md", diffPatch |-> "+ API updates",
      summary |-> "Update API docs", reasoning |-> "API changed"]}

InitDraft ==
    /\ pc = "getBaseRef"
    /\ pr \in PullRequests
    /\ suggestions \in SeqUpTo(DraftSuggestions, MaxSuggestions)
    /\ calls = <<>>
    /\ errorLog = <<>>
    /\ thrown = NoError
    /\ docFiles = <<>>
    /\ changedFiles = <<>>
    /\ docIndex = 0
    /\ needsUpdate = FALSE
    /\ original = <<>>
    /\ modified = <<>>
    /\ originalContent = ""
    /\ diffPatch = ""
    /\ lines = <<>>
    /\ originalLines = <<>>
    /\ ApplyLocalsInit
    /\ DraftIdle
    /\ InstallIdle
    /\ RequestIdle
    /\ MatchIdle
    /\ exports = <<>>
    /\ PassesIdle

NextDraft ==
    \/ GetBaseRef \/ LookupBranch \/ DeleteRef \/ CreateRef
    \/ GetContent \/ CommitChange \/ CreateDraftPR \/ CommentOnPR

SpecDraft == InitDraft /\ [][NextDraft]_vars

(***************************************************************************)
(* Specification SpecInstall: handleInstallation handles one installation  *)
(* event; every call to the host ends with one of Statuses.                *)
(***************************************************************************)
MaxRepositories == 2

\* installationHandler.ts, line 3
CONFIG_FILENAME == ".readmemuse.yml"

\* lines 22-43; the first line of the template stands for the template
CONFIG_TEMPLATE == "# Configuration for ReadmeMuse\n"

\* lines 54-62: the repositories of the event
repositories ==
    IF payload.action = "created" THEN payload.repositories
    ELSE IF payload.action = "added" THEN payload.repositories_added
    ELSE <<>>

\* the repository the loop of line 67 is at
Repo == repositories[repoIndex + 1]

\* line 70
Parts(repo) == SplitBy(repo.full_name, "/")

\* line 15
isNotFoundError(err) == err.raised /\ err.status = NotFound

\* line 72
LoggedInvalidFullName(log) ==
    Append(log, [by |-> "handleInstallation", error |-> NoError])

\* the error is logged where it arose and nowhere else
LoggedWhereRaised(log, err) ==
    Append(log, [by |-> "createConfigIfMissing", error |-> err])

\* lines 117 and 122, then line 78: createConfigIfMissing logs the error and
\* throws it, the loop catches it and logs it
LoggedByInstallation(log, err) ==
    Append(Append(log, [by |-> "createConfigIfMissing", error |-> err]),
           [by |-> "handleInstallation", error |-> err])

\* lines 67-75: the next repository is taken; one whose full_name is not
\* "owner/repo" is logged and passed over
TakeRepository ==
    /\ pc = "repository"
    /\ repoIndex < Len(repositories)
    /\ IF Len(Parts(Repo)) # 2
       THEN /\ errorLog' = LoggedInvalidFullName(errorLog)
            /\ repoIndex' = repoIndex + 1
            /\ pc' = "repository"
       ELSE /\ pc' = "checkConfig"
            /\ UNCHANGED <<errorLog, repoIndex>>
    /\ UNCHANGED <<payload, pr, calls, thrown>>
    /\ UNCHANGED <<patchVars, analysisVars, draftVars, requestVars, matchVars, exports, passVars>>

\* every error of the existence check leads to the creation
ShouldCreateAlways(err) == TRUE

\* line 104
ShouldCreate(err) == isNotFoundError(err)

\* lines 92-104 and 120-124: the existence check
CheckConfig ==
    /\ pc = "checkConfig"
    /\ \E st \in Statuses :
        /\ calls' = Append(calls, Call("repos.getContent",
                                       [owner |-> Parts(Repo)[1], repo |-> Parts(Repo)[2],
                                        path |-> CONFIG_FILENAME], st, NoData))
        /\ IF st = 200
           THEN /\ repoIndex' = repoIndex + 1
                /\ pc' = "repository"
                /\ UNCHANGED errorLog
           ELSE IF ShouldCreate(ErrorOf(st))
           THEN /\ pc' = "createConfig"
                /\ UNCHANGED <<errorLog, repoIndex>>
           ELSE /\ errorLog' = LoggedByInstallation(errorLog, ErrorOf(st))
                /\ repoIndex' = repoIndex + 1
                /\ pc' = "repository"
    /\ UNCHANGED <<payload, pr, thrown>>
    /\ UNCHANGED <<patchVars, analysisVars, draftVars, requestVars, matchVars, exports, passVars>>

\* lines 106-119: the template is written
CreateConfig ==
    /\ pc = "createConfig"
    /\ \E st \in Statuses :
        /\ calls' = Append(calls, Call("repos.createOrUpdateFileContents",
                                       [owner |-> Parts(Repo)[1], repo |-> Parts(Repo)[2],
                                        path |-> CONFIG_FILENAME,
                                        message |-> "Add ReadmeMuse configuration template",
                                        content |-> Base64(CONFIG_TEMPLATE)], st, NoData))
        /\ errorLog' = IF st = 200 THEN errorLog
                       ELSE LoggedByInstallation(errorLog, ErrorOf(st))
    /\ repoIndex' = repoIndex + 1
    /\ pc' = "repository"
    /\ UNCHANGED <<payload, pr, thrown>>
    /\ UNCHANGED <<patchVars, analysisVars, draftVars, requestVars, matchVars, exports, passVars>>

\* line 82: the loop is over and handleInstallation returns
InstallationHandled ==
    /\ pc = "repository"
    /\ repoIndex >= Len(repositories)
    /\ pc' = "installed"
    /\ UNCHANGED <<installVars, hostVars>>
    /\ UNCHANGED <<patchVars, analysisVars, draftVars, requestVars, matchVars, exports, passVars>>

Repository(owner, name) == [name |-> name, full_name |-> owner \o "/" \o name]

\* the repositories an event can name; the last two have a full_name that is
\* not "owner/repo"
EventRepositories ==
    {Repository("octo", "app"), Repository("octo", "lib"), Repository("acme", "app"),
     [name |-> "solo", full_name |-> "solo"],
     [name |-> "deep", full_name |-> "a/b/deep"]}

\* the lists of distinct repositories of at most n elements
DistinctRepositories(n) ==
    {list \in SeqUpTo(EventRepositories, n) :
        \A j, k \in 1..Len(list) : j # k => list[j] # list[k]}

\* installation.created carries `repositories`,
\* installation_repositories.added carries `repositories_added`
InstallationPayloads ==
    {[action |-> "created", repositories |-> list, repositories_added |-> <<>>] :
        list \in DistinctRepositories(MaxRepositories)}
    \cup {[action |-> "added", repositories |-> <<>>, repositories_added |-> list] :
            list \in DistinctRepositories(MaxRepositories)}

InitInstall ==
    /\ pc = "repository"
    /\ payload \in InstallationPayloads
    /\ repoIndex = 0
    /\ HostIdle
    /\ AnalysisIdle
    /\ original = <<>>
    /\ modified = <<>>
    /\ originalContent = ""
    /\ diffPatch = ""
    /\ lines = <<>>
    /\ originalLines = <<>>
    /\ ApplyLocalsInit
    /\ DraftIdle
    /\ RequestIdle
    /\ MatchIdle
    /\ exports = <<>>
    /\ PassesIdle

NextInstall == TakeRepository \/ CheckConfig \/ CreateConfig \/ InstallationHandled

SpecInstall == InitInstall /\ [][NextInstall]_vars

(***************************************************************************)
(* Specification SpecPasses: two passes of createDraftPRWithChanges for    *)
(* the same pull request, one for each event index.ts registers, run as    *)
(* the event loop interleaves them at their awaited calls.  The host keeps *)
(* one sync branch per pull request number; it is the only source of       *)
(* failures here: a reference that is missing or that exists already, a    *)
(* file that has changed since it was read, a pull request already open    *)
(* for the branch.                                                         *)
(***************************************************************************)
\* a step of a pass leaves the rest of the state alone
PassFrame ==
    UNCHANGED <<pc, patchVars, analysisVars, draftVars, hostVars, installVars,
                requestVars, matchVars, exports>>

\* the pass is left by the throw of line 340
PassFails(p) == passPc' = [passPc EXCEPT ![p] = "failed"]

PassGoes(p, to) == passPc' = [passPc EXCEPT ![p] = to]

\* lines 269-275: git.getRef of the base branch
PassGetBaseRef(p) ==
    /\ passPc[p] = "getBaseRef"
    /\ PassGoes(p, "lookupBranch")
    /\ UNCHANGED <<branch, passRef, passSha, commits, drafts>>
    /\ PassFrame

\* lines 278-284 and 293-298: git.getRef of the sync branch
PassLookupBranch(p) ==
    /\ passPc[p] = "lookupBranch"
    /\ IF branch.exists THEN PassGoes(p, "deleteRef")
       ELSE IF MissingBranch(ErrorOf(NotFound)) THEN PassGoes(p, "createRef")
       ELSE PassFails(p)
    /\ UNCHANGED <<branch, passRef, passSha, commits, drafts>>
    /\ PassFrame

\* lines 286-298: git.deleteRef of the sync branch; the host closes the pull
\* request opened from a branch that is deleted
PassDeleteRef(p) ==
    /\ passPc[p] = "deleteRef"
    /\ IF branch.exists
       THEN /\ branch' = [branch EXCEPT !.exists = FALSE]
            /\ drafts' = {}
            /\ PassGoes(p, "createRef")
       ELSE /\ \E st \in Statuses \ {200} :
                  IF MissingBranch(ErrorOf(st)) THEN PassGoes(p, "createRef")
                  ELSE PassFails(p)
            /\ UNCHANGED <<branch, drafts>>
    /\ UNCHANGED <<passRef, passSha, commits>>
    /\ PassFrame

\* lines 301-306: git.createRef of the sync branch
PassCreateRef(p) ==
    /\ passPc[p] = "createRef"
    /\ IF branch.exists
       THEN /\ PassFails(p)
            /\ UNCHANGED <<branch, passRef>>
       ELSE /\ branch' = [exists |-> TRUE, generation |-> branch.generation + 1,
                          version |-> 0]
            /\ passRef' = [passRef EXCEPT ![p] = branch.generation + 1]
            /\ PassGoes(p, "getContent")
    /\ UNCHANGED <<passSha, commits, drafts>>
    /\ PassFrame

\* lines 357-377: repos.getContent of the file on the sync branch; a 404 is
\* taken for a new file
PassGetContent(p) ==
    /\ passPc[p] = "getContent"
    /\ passSha' = [passSha EXCEPT ![p] = IF branch.exists THEN Str(NatToString(branch.version))
                                         ELSE Undefined]
    /\ PassGoes(p, "commit")
    /\ UNCHANGED <<branch, passRef, commits, drafts>>
    /\ PassFrame

\* lines 383-392: repos.createOrUpdateFileContents on the sync branch, with
\* the sha that was read
PassCommit(p) ==
    /\ passPc[p] = "commit"
    /\ IF branch.exists /\ passSha[p] = Str(NatToString(branch.version))
       THEN /\ branch' = [branch EXCEPT !.version = @ + 1]
            /\ commits' = Append(commits, [pass |-> p, generation |-> branch.generation])
            /\ PassGoes(p, "createPR")
       ELSE /\ PassFails(p)
            /\ UNCHANGED <<branch, commits>>
    /\ UNCHANGED <<passRef, passSha, drafts>>
    /\ PassFrame

\* lines 314-322: pulls.create of the draft pull request
PassCreateDraftPR(p) ==
    /\ passPc[p] = "createPR"
    /\ IF branch.exists /\ drafts = {}
       THEN drafts' = {p} /\ PassGoes(p, "comment")
       ELSE PassFails(p) /\ UNCHANGED drafts
    /\ UNCHANGED <<branch, passRef, passSha, commits>>
    /\ PassFrame

\* lines 327-336: issues.createComment on the pull request
PassComment(p) ==
    /\ passPc[p] = "comment"
    /\ PassGoes(p, "done")
    /\ UNCHANGED <<branch, passRef, passSha, commits, drafts>>
    /\ PassFrame

InitPasses ==
    /\ pc = "passes"
    /\ passPc = [p \in Passes |-> "getBaseRef"]
    /\ branch \in {NoBranch, [exists |-> TRUE, generation |-> 0, version |-> 1]}
    /\ passRef = [p \in Passes |-> 0]
    /\ passSha = [p \in Passes |-> Undefined]
    /\ commits = <<>>
    /\ drafts = {}
    /\ exports = <<>>
    /\ MatchIdle
    /\ HostIdle
    /\ AnalysisIdle
    /\ original = <<>>
    /\ modified = <<>>
    /\ originalContent = ""
    /\ diffPatch = ""
    /\ lines = <<>>
    /\ originalLines = <<>>
    /\ ApplyLocalsInit
    /\ DraftIdle
    /\ InstallIdle
    /\ RequestIdle

NextPasses ==
    \E p \in Passes :
        \/ PassGetBaseRef(p) \/ PassLookupBranch(p) \/ PassDeleteRef(p) \/ PassCreateRef(p)
        \/ PassGetContent(p) \/ PassCommit(p) \/ PassCreateDraftPR(p) \/ PassComment(p)

SpecPasses == InitPasses /\ [][NextPasses]_vars

(***************************************************************************)
(* minimatch(file, pattern), with its default options: a pattern is        *)
(* matched segment by segment; "**" as a segment stands for any number of  *)
(* segments, "*" inside a segment for any characters of the segment; a     *)
(* segment that starts with "." is matched only by a pattern segment that  *)
(* starts with "." itself.                                                 *)
(***************************************************************************)
\* the glob of one segment, from its position g on, matches name from n on
RECURSIVE GlobFrom(_, _, _, _)
GlobFrom(name, n, glob, g) ==
    IF g > Len(glob) THEN n > Len(name)
    ELSE IF CharAt(glob, g) = "*"
    THEN \/ GlobFrom(name, n, glob, g + 1)
         \/ n <= Len(name) /\ GlobFrom(name, n + 1, glob, g)
    ELSE /\ n <= Len(name)
         /\ CharAt(name, n) = CharAt(glob, g)
         /\ GlobFrom(name, n + 1, glob, g + 1)

IsDotFile(name) == StartsWith(name, ".")

MatchSegment(name, glob) ==
    /\ name # ""
    /\ IsDotFile(name) => IsDotFile(glob)
    /\ GlobFrom(name, 1, glob, 1)

RECURSIVE MatchSegments(_, _)
MatchSegments(names, globs) ==
    IF globs = <<>> THEN names = <<>>
    ELSE IF Head(globs) = "**"
    THEN \/ MatchSegments(names, Tail(globs))
         \/ /\ names # <<>>
            /\ ~IsDotFile(Head(names))
            /\ MatchSegments(Tail(names), globs)
    ELSE /\ names # <<>>
         /\ MatchSegment(Head(names), Head(globs))
         /\ MatchSegments(Tail(names), Tail(globs))

minimatch(file, pattern) == MatchSegments(SplitBy(file, "/"), SplitBy(pattern, "/"))

\* patterns.some(pattern => minimatch(file, pattern))
MatchesSome(file, patterns) ==
    \E k \in 1..Len(patterns) : minimatch(file, patterns[k])

\* every pull request is analysed
shouldAnalyzeAlways(files, watchPaths) == TRUE

\* pathMatcher.ts, lines 6-10
shouldAnalyzePR(files, watchPaths) ==
    \E k \in 1..Len(files) : MatchesSome(files[k], watchPaths)

\* a file is kept once for every pattern that matches it
RECURSIVE matchFilesPerPattern(_, _)
matchFilesPerPattern(files, patterns) ==
    IF patterns = <<>> THEN <<>>
    ELSE SelectSeq(files, LAMBDA file : minimatch(file, Head(patterns)))
         \o matchFilesPerPattern(files, Tail(patterns))

\* pathMatcher.ts, lines 15-19
RECURSIVE matchFiles(_, _)
matchFiles(files, patterns) ==
    IF files = <<>> THEN <<>>
    ELSE (IF MatchesSome(Head(files), patterns) THEN <<Head(files)>> ELSE <<>>)
         \o matchFiles(Tail(files), patterns)

(***************************************************************************)
(* Specification SpecMatch: matchFiles and shouldAnalyzePR called on their *)
(* own, on lists of paths and of patterns: paths listed twice, patterns    *)
(* that overlap, hidden files and patterns matching nothing.               *)
(***************************************************************************)
MaxFiles == 2
MaxPatterns == 2

\* pathMatcher.ts, line 16: `files.filter(...)` returns
CallMatchFiles ==
    /\ pc = "matchFiles"
    /\ matchedFiles' = matchFiles(fileList, patternList)
    /\ pc' = "shouldAnalyzePR"
    /\ UNCHANGED <<fileList, patternList, shouldAnalyze>>
    /\ UNCHANGED <<exports, passVars>>
    /\ UNCHANGED <<patchVars, analysisVars, draftVars, hostVars, installVars, requestVars>>

\* pathMatcher.ts, line 7: `changedFiles.some(...)` returns
CallShouldAnalyzePR ==
    /\ pc = "shouldAnalyzePR"
    /\ shouldAnalyze' = shouldAnalyzePR(fileList, patternList)
    /\ pc' = "done"
    /\ UNCHANGED <<fileList, patternList, matchedFiles>>
    /\ UNCHANGED <<exports, passVars>>
    /\ UNCHANGED <<patchVars, analysisVars, draftVars, hostVars, installVars, requestVars>>

\* the paths and the patterns the two functions are called with
MatchPaths == {"src/a.ts", "README.md", "docs/api.md", ".github/x.md"}
MatchPatterns == {"src/**/*", "**/*.ts", "*.md", "docs/**/*.md"}

InitMatch ==
    /\ pc = "matchFiles"
    /\ fileList \in SeqUpTo(MatchPaths, MaxFiles)
    /\ patternList \in SeqUpTo(MatchPatterns, MaxPatterns)
    /\ matchedFiles = <<>>
    /\ shouldAnalyze = FALSE
    /\ exports = <<>>
    /\ PassesIdle
    /\ HostIdle
    /\ AnalysisIdle
    /\ original = <<>>
    /\ modified = <<>>
    /\ originalContent = ""
    /\ diffPatch = ""
    /\ lines = <<>>
    /\ originalLines = <<>>
    /\ ApplyLocalsInit
    /\ DraftIdle
    /\ InstallIdle
    /\ RequestIdle

NextMatch == CallMatchFiles \/ CallShouldAnalyzePR

SpecMatch == InitMatch /\ [][NextMatch]_vars

(***************************************************************************)
(* Specification SpecPullRequest: handlePullRequest handles one pull       *)
(* request event: loadConfig, the smart trigger, analyzePRForDocUpdates    *)
(* (whose generateDocumentationSuggestions is the loop of SpecAnalyze) and *)
(* the delivery, by createDraftPRWithChanges (the steps of SpecDraft) or   *)
(* by postDocumentationSuggestions.                                        *)
(***************************************************************************)
\* a field of the parsed configuration file that should be an array
ArrayOf(items) == [isArray |-> TRUE, items |-> items]
NotAnArray == [isArray |-> FALSE, items |-> <<>>]

\* what yaml.load makes of the file
Yaml(watchPaths, documentationFiles, createDraftPR) ==
    [watchPaths |-> watchPaths, documentationFiles |-> documentationFiles,
     createDraftPR |-> createDraftPR]

\* what repos.getContent can answer for the configuration file: a file whose
\* YAML parses to the value given, a file whose YAML does not parse, an entry
\* without content
ConfigResponses ==
    {[hasContent |-> TRUE, parses |-> TRUE,
      yaml |-> Yaml(ArrayOf(<<"src/**/*">>), ArrayOf(<<"README.md", "docs/**/*.md">>),
                    Bool(TRUE))],
     [hasContent |-> TRUE, parses |-> TRUE,
      yaml |-> Yaml(ArrayOf(<<"lib/*">>), ArrayOf(<<"README.md">>), Text("yes"))],
     [hasContent |-> TRUE, parses |-> TRUE,
      yaml |-> Yaml(ArrayOf(<<"**/*.ts">>), ArrayOf(<<"README.md">>), Absent)],
     [hasContent |-> TRUE, parses |-> TRUE,
      yaml |-> Yaml(ArrayOf(<<"src/**/*">>), NotAnArray, Bool(TRUE))],
     [hasContent |-> TRUE, parses |-> FALSE,
      yaml |-> Yaml(NotAnArray, NotAnArray, Absent)],
     [hasContent |-> FALSE, parses |-> FALSE,
      yaml |-> Yaml(NotAnArray, NotAnArray, Absent)]}

\* the parsed value is returned as it is, whatever its fields are
ConfigOfUnvalidated(data) ==
    IF data.hasContent /\ data.parses
    THEN [watchPaths |-> data.yaml.watchPaths.items,
          documentationFiles |-> data.yaml.documentationFiles.items,
          createDraftPR |-> data.yaml.createDraftPR]
    ELSE DEFAULT_CONFIG

\* configService.ts, lines 22-45: the configuration made of a successful read
ConfigOf(data) ==
    IF /\ data.hasContent
       /\ data.parses
       /\ data.yaml.watchPaths.isArray
       /\ data.yaml.documentationFiles.isArray
    THEN [watchPaths |-> data.yaml.watchPaths.items,
          documentationFiles |-> data.yaml.documentationFiles.items,
          createDraftPR |-> data.yaml.createDraftPR]
    ELSE DEFAULT_CONFIG

\* configService.ts, lines 10-46: loadConfig never throws
LoadConfig ==
    /\ pc = "loadConfig"
    /\ \E st \in Statuses, response \in ConfigResponses :
        /\ calls' = Append(calls, Call("repos.getContent", [path |-> CONFIG_FILENAME],
                                       st, IF st = 200 THEN response ELSE NoData))
        /\ config' = IF st = 200 THEN ConfigOf(response) ELSE DEFAULT_CONFIG
    /\ pc' = "listFiles"
    /\ UNCHANGED <<pr, errorLog, thrown, matchedPaths, pathIndex, prFiles>>
    /\ UNCHANGED <<patchVars, analysisVars, draftVars, installVars, matchVars, exports, passVars>>

\* lines 104-107: the catch of handlePullRequest logs the error and throws it
FailHandlePullRequest(log, err) ==
    /\ errorLog' = Append(log, [by |-> "handlePullRequest", error |-> err])
    /\ thrown' = err
    /\ pc' = "rethrown"

RECURSIVE Filenames(_)
Filenames(files) ==
    IF files = <<>> THEN <<>> ELSE <<Head(files).filename>> \o Filenames(Tail(files))

\* lines 70-84: the changed files are listed and the smart trigger decides
ListFiles ==
    /\ pc = "listFiles"
    /\ \E st \in Statuses :
        /\ calls' = Append(calls, Call("pulls.listFiles", [pull_number |-> pr.number],
                                       st, IF st = 200 THEN [files |-> prFiles] ELSE NoData))
        /\ IF st # 200
           THEN FailHandlePullRequest(errorLog, ErrorOf(st))
           ELSE /\ pc' = IF shouldAnalyzePR(Filenames(prFiles), config.watchPaths)
                         THEN "getDiff" ELSE "done"
                /\ UNCHANGED <<errorLog, thrown>>
    /\ UNCHANGED <<pr, requestVars>>
    /\ UNCHANGED <<patchVars, analysisVars, draftVars, installVars, matchVars, exports, passVars>>

\* a catch that logs the error and throws it again
FailAnalysisRethrows(err) ==
    /\ errorLog' = Append(errorLog, [by |-> "analyzePRForDocUpdates", error |-> err])
    /\ suggestions' = <<>>
    /\ pc' = "threw"

\* aiAnalyzer.ts, lines 597-600: the catch of analyzePRForDocUpdates logs the
\* error and returns the empty list
FailAnalysis(err) ==
    /\ errorLog' = Append(errorLog, [by |-> "analyzePRForDocUpdates", error |-> err])
    /\ suggestions' = <<>>
    /\ pc' = "returned"

\* lines 553-562: the diff of the pull request is fetched
GetDiff ==
    /\ pc = "getDiff"
    /\ \E st \in Statuses :
        /\ calls' = Append(calls, Call("pulls.get", [pull_number |-> pr.number, format |-> "diff"],
                                       st, NoData))
        /\ IF st # 200
           THEN FailAnalysis(ErrorOf(st))
           ELSE /\ pc' = "analysisFiles"
                /\ UNCHANGED <<errorLog, suggestions>>
    /\ UNCHANGED <<pr, thrown, requestVars>>
    /\ UNCHANGED <<docFiles, changedFiles, docIndex, needsUpdate>>
    /\ UNCHANGED <<patchVars, draftVars, installVars, matchVars, exports, passVars>>

\* line 573: f.patch || ""
PatchOrEmpty(patch) == IF patch.defined THEN patch.text ELSE ""

\* lines 571-577
RECURSIVE ChangedFilesOf(_)
ChangedFilesOf(files) ==
    IF files = <<>> THEN <<>>
    ELSE <<[filename |-> Head(files).filename,
            patch |-> PatchOrEmpty(Head(files).patch),
            additions |-> Head(files).additions]>>
         \o ChangedFilesOf(Tail(files))

\* lines 565-577: the changed files are listed again, with their patches
AnalysisListFiles ==
    /\ pc = "analysisFiles"
    /\ \E st \in Statuses :
        /\ calls' = Append(calls, Call("pulls.listFiles", [pull_number |-> pr.number],
                                       st, IF st = 200 THEN [files |-> prFiles] ELSE NoData))
        /\ IF st # 200
           THEN /\ FailAnalysis(ErrorOf(st))
                /\ UNCHANGED changedFiles
           ELSE /\ changedFiles' = ChangedFilesOf(prFiles)
                /\ pc' = "getTree"
                /\ UNCHANGED <<errorLog, suggestions>>
    /\ UNCHANGED <<pr, thrown, requestVars>>
    /\ UNCHANGED <<docFiles, docIndex, needsUpdate>>
    /\ UNCHANGED <<patchVars, draftVars, installVars, matchVars, exports, passVars>>

\* the tree of the repository at the base of the pull request
RepositoryTree ==
    <<[type |-> "blob", path |-> "README.md"],
      [type |-> "tree", path |-> "docs"],
      [type |-> "blob", path |-> "docs/api.md"],
      [type |-> "blob", path |-> "pkg/README.md"],
      [type |-> "blob", path |-> "src/index.ts"]>>

\* lines 627-629: the paths of the blobs of the tree
RECURSIVE BlobPaths(_)
BlobPaths(tree) ==
    IF tree = <<>> THEN <<>>
    ELSE (IF Head(tree).type = "blob" THEN <<Head(tree).path>> ELSE <<>>)
         \o BlobPaths(Tail(tree))

\* lines 616-631 and 651-653: the tree is fetched and the documentation paths
\* are picked; a failure is logged and leaves no path
GetTree ==
    /\ pc = "getTree"
    /\ \E st \in Statuses :
        /\ calls' = Append(calls, Call("git.getTree", [recursive |-> "true"], st, NoData))
        /\ IF st # 200
           THEN /\ errorLog' = Append(errorLog, [by |-> "getDocumentationFiles",
                                                error |-> ErrorOf(st)])
                /\ matchedPaths' = <<>>
           ELSE /\ matchedPaths' = matchFiles(BlobPaths(RepositoryTree),
                                              config.documentationFiles)
                /\ UNCHANGED errorLog
    /\ pathIndex' = 0
    /\ docFiles' = <<>>
    /\ pc' = "readDoc"
    /\ UNCHANGED <<pr, thrown, config, prFiles>>
    /\ UNCHANGED <<changedFiles, docIndex, needsUpdate, suggestions>>
    /\ UNCHANGED <<patchVars, draftVars, installVars, matchVars, exports, passVars>>

\* the contents a documentation file can have at the base of the pull request
DocContents(path) ==
    IF path = "README.md" THEN {"# Proj\nSee A.ts", "## API\n## Changes"}
    ELSE {"# Api"}

\* what repos.getContent can answer for a documentation file
DocResponses(path) ==
    {[hasContent |-> TRUE, content |-> Base64(text)] : text \in DocContents(path)}
    \cup {[hasContent |-> FALSE, content |-> Base64("")]}

\* lines 634-650: one matched path is read; a file that cannot be read, or an
\* entry without content, is passed over
ReadDoc ==
    /\ pc = "readDoc"
    /\ pathIndex < Len(matchedPaths)
    /\ \E st \in Statuses, response \in DocResponses(matchedPaths[pathIndex + 1]) :
        /\ calls' = Append(calls, Call("repos.getContent",
                                       [path |-> matchedPaths[pathIndex + 1]],
                                       st, IF st = 200 THEN response ELSE NoData))
        /\ docFiles' = IF st = 200 /\ response.hasContent
                       THEN Append(docFiles, [path |-> matchedPaths[pathIndex + 1],
                                              content |-> FromBase64(response.content)])
                       ELSE docFiles
    /\ pathIndex' = pathIndex + 1
    /\ UNCHANGED <<pc, pr, errorLog, thrown, config, matchedPaths, prFiles>>
    /\ UNCHANGED <<changedFiles, docIndex, needsUpdate, suggestions>>
    /\ UNCHANGED <<patchVars, draftVars, installVars, matchVars, exports, passVars>>

\* lines 655 and 583: the documentation files are returned and
\* generateDocumentationSuggestions is called
GenerateSuggestions ==
    /\ pc = "readDoc"
    /\ pathIndex >= Len(matchedPaths)
    /\ docIndex' = 0
    /\ needsUpdate' = FALSE
    /\ suggestions' = <<>>
    /\ pc' = "check"
    /\ UNCHANGED <<docFiles, changedFiles>>
    /\ UNCHANGED <<hostVars, requestVars>>
    /\ UNCHANGED <<patchVars, draftVars, installVars, matchVars, exports, passVars>>

\* what JavaScript takes for true in a condition
Truthy(v) ==
    IF v.kind = "boolean" THEN v.bool
    ELSE IF v.kind = "string" THEN v.text # ""
    ELSE FALSE

\* the draft pull request is the channel whatever the configuration says
UseDraftPRAlways(cfg) == TRUE

\* configService.ts, line 95
UseDraftPR(cfg) == Truthy(cfg.createDraftPR)

\* lines 87-103: the suggestions are back; none ends the handling, otherwise
\* the channel is chosen
Deliver ==
    /\ pc = "returned"
    /\ pc' = IF Len(suggestions) = 0 THEN "done"
             ELSE IF UseDraftPR(config) THEN "getBaseRef"
             ELSE "postComment"
    /\ UNCHANGED <<hostVars, requestVars>>
    /\ UNCHANGED <<patchVars, analysisVars, draftVars, installVars, matchVars, exports, passVars>>

\* the body of the comment: every patch in a collapsible code block
RECURSIVE SuggestionBlocks(_)
SuggestionBlocks(list) ==
    IF list = <<>> THEN <<>>
    ELSE <<"### " \o Head(list).filePath, Head(list).summary,
           "<details>", "", "'''diff", Head(list).diffPatch, "'''", "", "</details>">>
         \o SuggestionBlocks(Tail(list))

\* postDocumentationSuggestions(context, pr, suggestions): one comment on the
\* pull request; a failure of the call propagates
PostDocumentationSuggestions ==
    /\ pc = "postComment"
    /\ \E st \in Statuses :
        /\ calls' = Append(calls, Call("issues.createComment",
                                       [issue_number |-> pr.number,
                                        body |-> Join(SuggestionBlocks(suggestions))],
                                       st, NoData))
        /\ IF st # 200
           THEN FailHandlePullRequest(errorLog, ErrorOf(st))
           ELSE /\ pc' = "done"
                /\ UNCHANGED <<errorLog, thrown>>
    /\ UNCHANGED <<pr, requestVars>>
    /\ UNCHANGED <<patchVars, analysisVars, draftVars, installVars, matchVars, exports, passVars>>

\* lines 104-107: an error thrown by createDraftPRWithChanges is caught,
\* logged and thrown again
CatchDraftPRError ==
    /\ pc = "threw"
    /\ FailHandlePullRequest(errorLog, thrown)
    /\ UNCHANGED <<pr, calls, requestVars>>
    /\ UNCHANGED <<patchVars, analysisVars, draftVars, installVars, matchVars, exports, passVars>>

\* a file of the pull request as pulls.listFiles gives it
HostFile(name, patch, additions) ==
    [filename |-> name, patch |-> patch, additions |-> additions]

\* the files a pull request can have; the last has no patch
RequestFiles ==
    {HostFile("src/a.ts", Str("@@ -0,0 +1,1 @@\n+export function foo() {}"), 1),
     HostFile("a.ts", Str("@@ ... @@\n-export function foo() {}\n+export function foo() { return 1; }"), 1),
     HostFile("lib/logo.png", Undefined, 0)}

InitPullRequest ==
    /\ pc = "loadConfig"
    /\ pr \in {p \in PullRequests : p.title = prTitle}
    /\ prFiles \in SeqUpTo(RequestFiles, MaxChangedFiles)
    /\ config = DEFAULT_CONFIG
    /\ matchedPaths = <<>>
    /\ pathIndex = 0
    /\ calls = <<>>
    /\ errorLog = <<>>
    /\ thrown = NoError
    /\ AnalysisIdle
    /\ original = <<>>
    /\ modified = <<>>
    /\ originalContent = ""
    /\ diffPatch = ""
    /\ lines = <<>>
    /\ originalLines = <<>>
    /\ ApplyLocalsInit
    /\ DraftIdle
    /\ InstallIdle
    /\ MatchIdle
    /\ exports = <<>>
    /\ PassesIdle

NextPullRequest ==
    \/ LoadConfig \/ ListFiles
    \/ GetDiff \/ AnalysisListFiles \/ GetTree \/ ReadDoc \/ GenerateSuggestions
    \/ CheckIfDocNeedsUpdate \/ AnalyzeDocumentationFile \/ ReturnSuggestions
    \/ Deliver \/ PostDocumentationSuggestions
    \/ GetBaseRef \/ LookupBranch \/ DeleteRef \/ CreateRef
    \/ GetContent \/ CommitChange \/ CreateDraftPR \/ CommentOnPR
    \/ CatchDraftPRError

SpecPullRequest == InitPullRequest /\ [][NextPullRequest]_vars

(***************************************************************************)
(* Properties of createUnifiedDiff and applyDiffPatch.                     *)
(***************************************************************************)
\* the lines of a patch after its two file headers and its hunk header
PatchBody(patch) == SubSeq(Split(patch), 4, Len(Split(patch)))

\* how many lines of body start with one of the characters in marks
CountMarked(body, marks) ==
    Cardinality({k \in 1..Len(body) : Len(body[k]) > 0 /\ CharAt(body[k], 1) \in marks})

\* the lines of body that start with one of the characters in marks, unmarked
RECURSIVE Unmarked(_, _)
Unmarked(body, marks) ==
    IF Len(body) = 0 THEN <<>>
    ELSE (IF Len(body[1]) > 0 /\ CharAt(body[1], 1) \in marks
          THEN <<Substring1(body[1])>> ELSE <<>>)
         \o Unmarked(Tail(body), marks)

\* C1: round-trip law: for original # proposed, applying the synthesized patch
\* to the joined original returns the joined proposed lines.
RoundTripLaw ==
    (pc = "done" /\ original # modified) => result = Join(modified)

\* patch is a well-formed single-hunk unified diff against content: two file
\* headers, one hunk header "@@ -a,b +c,d @@" with a >= 1, a body of context,
\* deletion and insertion lines whose numbers are b and d, the hunk's original
\* range inside content, and context and deletion lines that agree with it.
WellFormedHunk(content, patch) ==
    LET patchLines == Split(patch)
        origLines == Split(content)
        body == PatchBody(patch)
        h == HunkMatch(patchLines[3])
        a == ParseInt(h.group1)
        old == Unmarked(body, {" ", "-"})
    IN  /\ Len(patchLines) >= 3
        /\ StartsWith(patchLines[1], "--- ")
        /\ StartsWith(patchLines[2], "+++ ")
        /\ HunkRegexAt(patchLines[3], 1)
        /\ h.group2 # "" /\ h.group4 # ""
        /\ a >= 1
        /\ \A k \in 1..Len(body) : Len(body[k]) > 0 /\ CharAt(body[k], 1) \in {" ", "-", "+"}
        /\ ParseInt(h.group2) = Len(old)
        /\ ParseInt(h.group4) = CountMarked(body, {" ", "+"})
        /\ a - 1 + Len(old) <= Len(origLines)
        /\ \A k \in 1..Len(old) : old[k] = origLines[a - 1 + k]

\* the file a well-formed hunk describes: the lines before the hunk, the hunk's
\* new side, the lines after the hunk's original range
PatchedFile(content, patch) ==
    LET origLines == Split(content)
        body == PatchBody(patch)
        a == ParseInt(HunkMatch(Split(patch)[3]).group1)
        b == CountMarked(body, {" ", "-"})
    IN  Join(SubSeq(origLines, 1, a - 1)
             \o Unmarked(body, {" ", "+"})
             \o SubSeq(origLines, a + b, Len(origLines)))

\* C2: applyDiffPatch reconstructs the whole file from a well-formed
\* single-hunk patch: no original line outside the hunk is lost.
ReconstructsWholeFile ==
    (pc = "done" /\ WellFormedHunk(originalContent, diffPatch))
        => result = PatchedFile(originalContent, diffPatch)

\* C3: header consistency: the hunk header createUnifiedDiff writes counts the
\* context+deletion lines and the context+insertion lines of the body it writes.
HeaderConsistency ==
    (pc # "synthesize" /\ original # modified) =>
        LET h == HunkMatch(Split(diffPatch)[3])
            body == PatchBody(diffPatch)
        IN  /\ h.matched
            /\ h.group2 # "" /\ h.group4 # ""
            /\ ParseInt(h.group2) = CountMarked(body, {" ", "-"})
            /\ ParseInt(h.group4) = CountMarked(body, {" ", "+"})

\* C4: applier safety: applyDiffPatch raises no exception on any original and
\* any patch text: a call is in its loop, about to return, or has returned.
ApplierSafety == pc \in {"loop", "return", "done"}

\* a call has returned on a patch with an unparseable hunk header, a hunk that
\* starts at line 0 and a header count that disagrees with the body
ApplierSafetyWitness ==
    /\ pc = "done"
    /\ diffPatch = "@@ bad @@\n@@ -0,0 +1,1 @@\n a"
    /\ originalContent = "a\nb"

\* neither pass of applyDiffPatch emits a line for this patch
NoOutputLine(content, patch) ==
    /\ Len(ApplyLoop(ApplyInitialState, Split(patch), 0, Split(content)).newLines) = 0
    /\ Len(FallbackLines(Split(patch))) = 0

\* C5: terminal fallback: when neither pass emits a line, the result is the
\* whole original followed by the manual-review marker: never empty, never the
\* bare original, and no exception.
TerminalFallback ==
    (pc \in {"done", "threw"} /\ NoOutputLine(originalContent, diffPatch)) =>
        /\ pc = "done"
        /\ result = originalContent \o ErrorMarker
        /\ StartsWith(result, originalContent)
        /\ result # ""
        /\ result # originalContent

\* the call on the patch text "not a real diff" has returned
TerminalFallbackWitness ==
    /\ pc = "done"
    /\ diffPatch = "not a real diff"
    /\ originalContent = "a\nb"
    /\ NoOutputLine(originalContent, diffPatch)

(***************************************************************************)
(* Properties of checkIfDocNeedsUpdate, extractNewExports and the patches  *)
(* of generateDocumentationSuggestions.                                    *)
(***************************************************************************)
\* s without its leading white space
TrimStart(s) == SubSeq(s, 1 + WhiteRun(s, 1), Len(s))

\* line is an added line whose content, after optional white space, starts
\* with one of the markers, compared case-insensitively
AddedMarkerLine(line) ==
    /\ StartsWith(line, "+")
    /\ \E k \in 1..Len(exportPatterns) :
           StartsWith(ToLowerCase(TrimStart(Substring1(line))), exportPatterns[k])

\* some changed file's patch has an added marker line
SomeAddedMarkerLine(files) ==
    \E f \in 1..Len(files) :
        \E k \in 1..Len(Split(files[f].patch)) : AddedMarkerLine(Split(files[f].patch)[k])

\* the documentation content contains the base name of some changed file
ContentHasBaseName(content, files) ==
    \E f \in 1..Len(files) :
        Includes(ToLowerCase(content), ToLowerCase(BaseName(files[f].filename)))

\* C6: checkIfDocNeedsUpdate returns true if and only if (a) some patch has an
\* added line whose content starts with a marker, or (b) the documentation
\* content contains the base name of some changed file.
DetectionRule ==
    pc = "generate" =>
        (needsUpdate <=> (SomeAddedMarkerLine(changedFiles)
                          \/ ContentHasBaseName(DocFile.content, changedFiles)))

\* the change of the detection scenario: foo is removed and added again
ScenarioChange ==
    Change("a.ts", "@@ ... @@\n-export function foo() {}\n+export function foo() { return 1; }")

\* the scenario's inputs have been checked: the one change, and a
\* documentation content that does not contain "a.ts"
ScenarioChecked ==
    /\ pc = "generate"
    /\ changedFiles = <<ScenarioChange>>
    /\ ~Includes(ToLowerCase(DocFile.content), "a.ts")

\* C7 as stated: for the scenario's change and a documentation content without
\* "a.ts", checkIfDocNeedsUpdate returns false.
DetectionNegativeScenario == ScenarioChecked => needsUpdate = FALSE

\* C7, amended: for the scenario's change and a documentation content without
\* "a.ts", checkIfDocNeedsUpdate returns true, because the patch has the added
\* line "+export function foo() { return 1; }".
DetectionScenarioIsPositive == ScenarioChecked => needsUpdate = TRUE

DetectionScenarioWitness ==
    /\ ScenarioChecked
    /\ AddedMarkerLine(Split(changedFiles[1].patch)[3])
    /\ needsUpdate = TRUE

\* the one-to-one maps of 1..n onto itself
IndexPermutations(n) ==
    {f \in [1..n -> 1..n] : \A a, b \in 1..n : f[a] = f[b] => a = b}

\* the reorderings of the list files
Reorderings(files) ==
    {[k \in 1..Len(files) |-> files[f[k]]] : f \in IndexPermutations(Len(files))}

\* C8: checkIfDocNeedsUpdate is deterministic and order-independent: called
\* on any permutation of the changed files, the identity included, it returns
\* what the call of the program returned.
DetectionOrderIndependent ==
    pc = "generate" =>
        \A files \in Reorderings(changedFiles) :
            checkIfDocNeedsUpdate(DocFile, files) = needsUpdate

DetectionOrderWitness ==
    /\ pc = "generate"
    /\ Len(changedFiles) = 2
    /\ ~FileHasNewCode(changedFiles[1])
    /\ FileHasNewCode(changedFiles[2])
    /\ ~ContentHasBaseName(DocFile.content, changedFiles)
    /\ needsUpdate = TRUE

\* line holds a declaration "export <kind> <name>"
Declares(line, name) ==
    \E q \in 1..Len(line) :
        ExportDeclAt(line, q) /\ Slice(line, DeclNameStart(line, q), DeclEnd(line, q)) = name

\* some line of some patch starts with "+" and declares name
DeclaredOnAddedLine(files, name) ==
    \E f \in 1..Len(files) :
        \E k \in 1..Len(Split(files[f].patch)) :
            StartsWith(Split(files[f].patch)[k], "+") /\ Declares(Split(files[f].patch)[k], name)

\* C9: extractor purity: every identifier extractNewExports returns is declared
\* on a line whose first character is "+", never only on deletion, context or
\* hunk-header lines.
ExtractorPurity ==
    pc = "generate" =>
        \A k \in 1..Len(extractNewExports(changedFiles)) :
            DeclaredOnAddedLine(changedFiles, extractNewExports(changedFiles)[k])

\* line is exactly one hunk header "@@ -<start>,<count> +<start>,<count> @@"
IsHunkHeader(line) ==
    /\ HunkRegexAt(line, 1)
    /\ HunkMatchAt(line, 1).group2 # ""
    /\ HunkMatchAt(line, 1).group4 # ""
    /\ Group4End(line, 1) + 2 = Len(line)

\* the file analysed by the iteration that has just ended
AnalyzedDoc == docFiles[docIndex]

\* that iteration pushed a suggestion, which is now the last one
SuggestionEmitted ==
    /\ pc = "check"
    /\ docIndex > 0
    /\ needsUpdate
    /\ ~generateDiffPatch(AnalyzedDoc, changedFiles).isNull

\* the lines of the proposed document, as its text reads
ProposedLines(docFile, files) ==
    Split(Join(updatedLines(docFile, extractNewExports(files))))

\* s has the unified-diff shape for the document docFile and its proposed text
UnifiedDiffShape(s, docFile, files) ==
    /\ Len(Split(s.diffPatch)) >= 3
    /\ Split(s.diffPatch)[1] = "--- a/" \o s.filePath
    /\ Split(s.diffPatch)[2] = "+++ b/" \o s.filePath
    /\ IsHunkHeader(Split(s.diffPatch)[3])
    /\ \A k \in 1..Len(PatchBody(s.diffPatch)) :
           /\ Len(PatchBody(s.diffPatch)[k]) > 0
           /\ CharAt(PatchBody(s.diffPatch)[k], 1) \in {"+", "-", " "}
    /\ \A k \in 1..Len(Unmarked(PatchBody(s.diffPatch), {"-"})) :
           \E n \in 1..Len(Split(docFile.content)) :
               Split(docFile.content)[n] = Unmarked(PatchBody(s.diffPatch), {"-"})[k]
    /\ \A k \in 1..Len(Unmarked(PatchBody(s.diffPatch), {"+"})) :
           \E n \in 1..Len(ProposedLines(docFile, files)) :
               ProposedLines(docFile, files)[n] = Unmarked(PatchBody(s.diffPatch), {"+"})[k]

\* C10: every diffPatch emitted has the unified-diff shape: the two file
\* headers with the suggestion's filePath, one hunk header, then lines that
\* begin with "+", "-" or a space, each "-" line a line removed from the
\* document and each "+" line a line of the proposed document.
EmittedPatchShape ==
    SuggestionEmitted =>
        UnifiedDiffShape(suggestions[Len(suggestions)], AnalyzedDoc, changedFiles)

\* the suggestion s is complete and is about the documentation file docFile
CompleteSuggestion(s, docFile) ==
    /\ s.filePath = docFile.path
    /\ s.diffPatch # ""
    /\ s.summary # ""
    /\ s.reasoning # ""

\* C11: no partial suggestion: the analysis of one documentation file leaves
\* the list of suggestions as it is (the candidate is rejected) or appends
\* exactly one suggestion, with the file's path and non-empty diffPatch,
\* summary and reasoning; appending keeps the order of docFiles.
NoPartialSuggestion ==
    [][pc = "generate" =>
          \/ suggestions' = suggestions
          \/ /\ Len(suggestions') = Len(suggestions) + 1
             /\ SubSeq(suggestions', 1, Len(suggestions)) = suggestions
             /\ CompleteSuggestion(suggestions'[Len(suggestions')], DocFile)]_vars

NoPartialSuggestionWitness ==
    /\ pc = "check"
    /\ docIndex = 2
    /\ docFiles[1].path = "docs/api.md"
    /\ checkIfDocNeedsUpdate(docFiles[1], changedFiles)
    /\ Len(suggestions) = 1
    /\ CompleteSuggestion(suggestions[1], docFiles[2])

\* C12: synthesize-then-apply scenario: for original = ["# Proj", "", "Body"]
\* and proposed = ["# Proj", "", "## Recent Changes", "", "- Added X", "",
\* "Body"], applying the synthesized patch to the joined original returns the
\* joined proposed lines.
SynthesizeApplyScenario ==
    (pc = "done" /\ original = ReadmeLines /\ modified = ReadmeWithChanges)
        => result = Join(ReadmeWithChanges)

(***************************************************************************)
(* Properties of createDraftPRWithChanges and applyDocumentationChange.    *)
(***************************************************************************)
\* the positions in the log of the calls to the method api
CallsTo(api) == {k \in 1..Len(calls) : calls[k].api = api}

\* the call that looked the sync branch up has been made: it is the second
\* call, after the read of the base branch
BranchLookedUp == Len(calls) >= 2 /\ calls[2].api = "git.getRef"

\* the positions of createDraftPRWithChanges after the branch was created
AfterBranchCreation == {"getContent", "commit", "createPR", "comment", "done"}

\* C13: the sync branch refs/heads/readmemuse-sync-<pr.number> is created
\* exactly once, at the SHA read from the base branch; deleteRef comes before
\* createRef when the lookup succeeded, is never called when the lookup
\* failed with 404, and createRef is never called when the lookup or the
\* deletion failed with another error.
BranchCreatedOnce ==
    /\ Cardinality(CallsTo("git.createRef")) <= 1
    /\ pc \in AfterBranchCreation =>
           \E k \in CallsTo("git.createRef") : calls[k].status = 200
    /\ \A k \in CallsTo("git.createRef") :
           /\ calls[k].args.ref = "refs/heads/readmemuse-sync-" \o NumberToString(pr.number)
           /\ calls[1].status = 200
           /\ calls[k].args.sha = calls[1].data.sha
           /\ calls[2].status = 200 => \E j \in CallsTo("git.deleteRef") : j < k
    /\ (BranchLookedUp /\ calls[2].status = 404) => CallsTo("git.deleteRef") = {}
    /\ (BranchLookedUp /\ calls[2].status \notin {200, 404}) => CallsTo("git.createRef") = {}
    /\ (\E j \in CallsTo("git.deleteRef") : calls[j].status \notin {200, 404})
           => CallsTo("git.createRef") = {}

BranchCreatedOnceWitness ==
    /\ pc = "done"
    /\ calls[2].status = 200
    /\ \E j \in CallsTo("git.deleteRef"), k \in CallsTo("git.createRef") :
           j < k /\ calls[k].args.sha = "base-sha-123"

\* the methods that write to the host
WriteApis ==
    {"git.createRef", "repos.createOrUpdateFileContents", "pulls.create",
     "issues.createComment"}

IsWrite(c) == c.api \in WriteApis

\* the calls that write, in the order they were made
Writes == SelectSeq(calls, IsWrite)

\* the branch of pull request p, as the claims name it
SyncBranch(p) == "readmemuse-sync-" \o NumberToString(p.number)

\* the writes w of a successful run are: the branch, one commit per
\* suggestion in list order, one draft pull request, one comment
OrderedDelivery(w) ==
    /\ Len(w) = Len(suggestions) + 3
    /\ w[1].api = "git.createRef"
    /\ \A k \in 1..Len(suggestions) :
           /\ w[k + 1].api = "repos.createOrUpdateFileContents"
           /\ w[k + 1].args.path = suggestions[k].filePath
           /\ w[k + 1].args.branch = SyncBranch(pr)
           /\ w[k + 1].args.message = "docs: " \o suggestions[k].summary
    /\ w[Len(w) - 1].api = "pulls.create"
    /\ w[Len(w) - 1].args.draft = TRUE
    /\ w[Len(w) - 1].args.head = SyncBranch(pr)
    /\ w[Len(w) - 1].args.base = pr.baseRef
    /\ w[Len(w)].api = "issues.createComment"
    /\ w[Len(w)].args.issue_number = pr.number
    /\ Includes(w[Len(w)].args.body, "#" \o NumberToString(w[Len(w) - 1].data.number))

\* C14: in every successful run the writes are, in order: the branch creation,
\* one commit per suggestion in list order (path, sync branch, message
\* "docs: <summary>"), one draft pull request (draft, head the sync branch,
\* base pr.base.ref), one comment on the original pull request naming the
\* draft; no commit is made before the branch exists and no pull request is
\* opened before all commits are made.
DeliveryOrder ==
    /\ pc = "done" => OrderedDelivery(Writes)
    /\ \A k \in CallsTo("repos.createOrUpdateFileContents") :
           \E j \in CallsTo("git.createRef") : j < k /\ calls[j].status = 200
    /\ \A k \in CallsTo("pulls.create") :
           Cardinality({j \in CallsTo("repos.createOrUpdateFileContents") :
                           j < k /\ calls[j].status = 200}) = Len(suggestions)

DeliveryOrderWitness ==
    /\ pc = "done"
    /\ Len(suggestions) = 2
    /\ suggestions[1].filePath # suggestions[2].filePath
    /\ Len(Writes) = 5
    /\ Writes[2].args.path = suggestions[1].filePath
    /\ Writes[3].args.path = suggestions[2].filePath

\* the suggestion the read at position k of calls was made for: the reads
\* are made one per suggestion, in list order
SuggestionRead(k) ==
    suggestions[Cardinality({j \in CallsTo("repos.getContent") : j <= k})]

\* the call after position k is the commit of the file read at position k
CommitFollows(k) ==
    /\ calls[k + 1].api = "repos.createOrUpdateFileContents"
    /\ calls[k + 1].args.path = calls[k].args.path

\* C15: applyDocumentationChange: a read that fails with 404 is followed by a
\* commit of the patch applied to the empty content, with sha undefined; a
\* read that succeeds is followed by a commit that carries the sha that was
\* read; a read that fails with another status is followed by no commit and
\* its error propagates.
ApplyChangeContract ==
    \A k \in CallsTo("repos.getContent") :
        /\ (calls[k].status = NotFound /\ k < Len(calls)) =>
               /\ CommitFollows(k)
               /\ calls[k + 1].args.content =
                      Base64(applyDiffPatch("", SuggestionRead(k).diffPatch).value)
               /\ calls[k + 1].args.sha = Undefined
        /\ (calls[k].status = 200 /\ k < Len(calls)) =>
               /\ CommitFollows(k)
               /\ calls[k + 1].args.sha = calls[k].data.sha
        /\ calls[k].status \notin {200, NotFound} =>
               /\ k = Len(calls)
               /\ pc = "threw"
               /\ thrown = ErrorOf(calls[k].status)

\* the failures the claim excepts: a 404 of the lookup of the sync branch
\* (the second call) and a 404 of a file read
SwallowedByClaim(k) ==
    /\ calls[k].status = NotFound
    /\ \/ k = 2 /\ calls[k].api = "git.getRef"
       \/ calls[k].api = "repos.getContent"

\* the failures the code swallows: those, and a 404 of the deletion of the
\* sync branch
SwallowedByCode(k) ==
    \/ SwallowedByClaim(k)
    \/ calls[k].status = NotFound /\ calls[k].api = "git.deleteRef"

\* the failed call at position k ended the run: it is the last call, its
\* error was logged by createDraftPRWithChanges and is the error thrown
FailureEndsRun(k) ==
    /\ k = Len(calls)
    /\ pc = "threw"
    /\ thrown = ErrorOf(calls[k].status)
    /\ Len(errorLog) > 0
    /\ errorLog[Len(errorLog)] =
           [by |-> "createDraftPRWithChanges", error |-> ErrorOf(calls[k].status)]

\* C16 (as stated): every failed call of createDraftPRWithChanges, other than
\* a 404 of the lookup of the sync branch or a 404 of a file read, is logged
\* and rethrown unchanged, and no later step runs.
FailuresPropagate ==
    \A k \in 1..Len(calls) :
        (calls[k].status # 200 /\ ~SwallowedByClaim(k)) => FailureEndsRun(k)

\* C16 (amended): every failed call of createDraftPRWithChanges, other than a
\* 404 of the lookup or of the deletion of the sync branch or a 404 of a file
\* read, is logged and rethrown unchanged, and no later step runs.
FailuresPropagateButMissing ==
    \A k \in 1..Len(calls) :
        (calls[k].status # 200 /\ ~SwallowedByCode(k)) => FailureEndsRun(k)

FailuresPropagateWitness ==
    /\ pc = "threw"
    /\ Len(calls) > 0
    /\ calls[Len(calls)].api = "repos.createOrUpdateFileContents"
    /\ calls[Len(calls)].status = 500
    /\ thrown = ErrorOf(500)
    /\ CallsTo("pulls.create") = {}
    /\ CallsTo("issues.createComment") = {}
    /\ \E k \in CallsTo("git.deleteRef") : calls[k].status = NotFound

(***************************************************************************)
(* Properties of handleInstallation.                                       *)
(***************************************************************************)
\* the repository a call was made to, as "owner/repo"
FullNameOf(c) == c.args.owner \o "/" \o c.args.repo

\* the call at position k wrote the configuration file
WritesConfig(k) == calls[k].api = "repos.createOrUpdateFileContents"

\* C17: handleInstallation never overwrites a configuration: for each
\* repository of the event the configuration file is written at most once, and
\* it is written if and only if the existence check of that repository, made
\* just before, failed with status 404; after a check that succeeded or failed
\* otherwise nothing is written to the repository.
NeverOverwritesConfig ==
    /\ \A k \in CallsTo("repos.createOrUpdateFileContents") :
           /\ calls[k].args.path = CONFIG_FILENAME
           /\ k > 1
           /\ calls[k - 1].api = "repos.getContent"
           /\ calls[k - 1].status = NotFound
           /\ FullNameOf(calls[k - 1]) = FullNameOf(calls[k])
           /\ \A j \in CallsTo("repos.createOrUpdateFileContents") :
                  j # k => FullNameOf(calls[j]) # FullNameOf(calls[k])
    /\ \A k \in CallsTo("repos.getContent") :
           IF calls[k].status = NotFound
           THEN IF k = Len(calls)
                THEN pc = "createConfig"
                ELSE WritesConfig(k + 1) /\ FullNameOf(calls[k + 1]) = FullNameOf(calls[k])
           ELSE \A j \in CallsTo("repos.createOrUpdateFileContents") :
                    FullNameOf(calls[j]) # FullNameOf(calls[k])

NeverOverwritesConfigWitness ==
    /\ pc = "installed"
    /\ \E k \in CallsTo("repos.getContent") : calls[k].status = 200
    /\ \E k \in CallsTo("repos.createOrUpdateFileContents") : calls[k].status = 200

IsExistenceCheck(c) == c.api = "repos.getContent"

\* the repositories whose configuration was looked for, in the order of the calls
RECURSIVE FullNames(_)
FullNames(list) ==
    IF list = <<>> THEN <<>> ELSE <<FullNameOf(Head(list))>> \o FullNames(Tail(list))

HasOwnerAndName(repo) == Len(Parts(repo)) = 2

RECURSIVE NamesOf(_)
NamesOf(list) ==
    IF list = <<>> THEN <<>> ELSE <<Head(list).full_name>> \o NamesOf(Tail(list))

\* the repositories of the event that the loop is done with, and the one
\* whose existence check has been answered
Taken == SubSeq(repositories, 1,
                IF pc = "createConfig" THEN repoIndex + 1 ELSE repoIndex)

IsFailure(c) ==
    c.status # 200 /\ ~(c.api = "repos.getContent" /\ c.status = NotFound)

LoggedByHandler(entry) == entry.by = "handleInstallation"

\* C18: handleInstallation processes every repository of the event once, in
\* order: the repositories checked are those taken so far, and all of them
\* when it returns; every failure (a failed check, a failed write, a full_name
\* that cannot be split) is logged and the loop goes on; it never throws.
ProcessesEveryRepository ==
    /\ FullNames(SelectSeq(calls, IsExistenceCheck))
           = NamesOf(SelectSeq(Taken, HasOwnerAndName))
    /\ pc = "installed" => repoIndex = Len(repositories)
    /\ Len(SelectSeq(errorLog, LoggedByHandler))
           = Len(SelectSeq(calls, IsFailure))
             + (Len(SubSeq(repositories, 1, repoIndex))
                - Len(SelectSeq(SubSeq(repositories, 1, repoIndex), HasOwnerAndName)))
    /\ thrown = NoError
    /\ pc \in {"repository", "checkConfig", "createConfig", "installed"}

ProcessesEveryRepositoryWitness ==
    /\ pc = "installed"
    /\ Len(repositories) = 2
    /\ Len(calls) >= 2
    /\ IsFailure(calls[1])
    /\ FullNameOf(calls[1]) = repositories[1].full_name
    /\ FullNameOf(calls[Len(calls)]) = repositories[2].full_name

(***************************************************************************)
(* Properties of handlePullRequest.                                        *)
(***************************************************************************)
\* the changed files were listed for the smart trigger: it is the second
\* call, after the read of the configuration
FilesListed ==
    /\ Len(calls) >= 2
    /\ calls[2].api = "pulls.listFiles"
    /\ calls[2].status = 200

\* no changed file matches any watch path of the configuration
NoWatchedFileChanged ==
    \A k \in 1..Len(prFiles) : \A j \in 1..Len(config.watchPaths) :
        ~minimatch(prFiles[k].filename, config.watchPaths[j])

\* C19: smart triggering: when no changed file of the pull request matches any
\* configured watch path, handlePullRequest returns without running the
\* analysis and without posting a comment, creating a branch, committing or
\* opening a draft pull request.
SmartTriggering ==
    (FilesListed /\ NoWatchedFileChanged) =>
        /\ pc = "done"
        /\ Len(calls) = 2
        /\ Writes = <<>>
        /\ CallsTo("pulls.get") = {}
        /\ CallsTo("git.getTree") = {}
        /\ docFiles = <<>>
        /\ suggestions = <<>>
        /\ thrown = NoError

SmartTriggeringWitness ==
    /\ FilesListed
    /\ NoWatchedFileChanged
    /\ Len(prFiles) = 2
    /\ config # DEFAULT_CONFIG
    /\ pc = "done"

\* createDraftPRWithChanges has been invoked: it is running, or it made its
\* first call
DraftPRInvoked ==
    \/ pc \in {"getBaseRef", "lookupBranch", "deleteRef", "createRef",
               "getContent", "commit", "createPR", "comment"}
    \/ CallsTo("git.getRef") # {}

\* postDocumentationSuggestions has been invoked: it is running, or it made
\* its call
CommentInvoked ==
    \/ pc = "postComment"
    \/ CallsTo("issues.createComment") # {} /\ CallsTo("git.getRef") = {}

\* config.createDraftPR is taken for true by the condition of the handler
SettingOn(cfg) == cfg.createDraftPR \notin {Bool(FALSE), Absent, Text("")}

\* what holds of every state of the handling
OneChannel ==
    /\ Writes # <<>> => Len(suggestions) > 0
    /\ ~(DraftPRInvoked /\ CommentInvoked)
    /\ DraftPRInvoked => (SettingOn(config) /\ Len(suggestions) > 0)
    /\ CommentInvoked => (~SettingOn(config) /\ Len(suggestions) > 0)
    /\ config = DEFAULT_CONFIG => ~DraftPRInvoked

\* what holds of the step taken when the analysis has returned
ChannelChosen ==
    pc = "returned" =>
        /\ calls' = calls
        /\ pc' = IF Len(suggestions) = 0 THEN "done"
                 ELSE IF SettingOn(config) THEN "getBaseRef"
                 ELSE "postComment"

ConfigLoaded == pc # "loadConfig" /\ Len(calls) >= 1

\* the file was read and it parses to a value whose two lists are arrays
ValidConfigRead(read) ==
    /\ read.status = 200
    /\ read.data.hasContent
    /\ read.data.parses
    /\ read.data.yaml.watchPaths.isArray
    /\ read.data.yaml.documentationFiles.isArray

\* C21: loadConfig never throws and returns the parsed configuration of the
\* repository only when the file was read and both watchPaths and
\* documentationFiles are arrays; it returns DEFAULT_CONFIG when the file is
\* missing (404), when the read fails otherwise, when the YAML does not parse
\* and when either field is absent or not an array.
LoadConfigContract ==
    /\ pc = "listFiles" => (thrown = NoError /\ errorLog = <<>>)
    /\ ConfigLoaded =>
           /\ calls[1].api = "repos.getContent"
           /\ calls[1].args.path = CONFIG_FILENAME
           /\ IF ValidConfigRead(calls[1])
              THEN /\ config.watchPaths = calls[1].data.yaml.watchPaths.items
                   /\ config.documentationFiles = calls[1].data.yaml.documentationFiles.items
                   /\ config.createDraftPR = calls[1].data.yaml.createDraftPR
              ELSE config = DEFAULT_CONFIG

LoadConfigContractWitness ==
    /\ pc = "listFiles"
    /\ calls[1].status = 200
    /\ calls[1].data.hasContent
    /\ calls[1].data.parses
    /\ calls[1].data.yaml.watchPaths.isArray
    /\ ~calls[1].data.yaml.documentationFiles.isArray
    /\ config = DEFAULT_CONFIG

(***************************************************************************)
(* Properties of matchFiles and shouldAnalyzePR.                           *)
(***************************************************************************)
\* the positions of the input whose file matches at least one pattern
MatchingPositions ==
    {k \in 1..Len(fileList) :
        \E p \in 1..Len(patternList) : minimatch(fileList[k], patternList[p])}

\* the j-th matching position, counted from the start of the input
NthMatching(j) ==
    CHOOSE k \in MatchingPositions :
        Cardinality({m \in MatchingPositions : m <= k}) = j

\* C22: matchFiles(files, patterns) returns exactly the files that match at
\* least one pattern, each once and in input order (the empty list when none
\* matches), and shouldAnalyzePR(files, patterns) is true exactly when
\* matchFiles(files, patterns) is non-empty.
MatchFilesContract ==
    /\ pc \in {"shouldAnalyzePR", "done"} =>
           /\ Len(matchedFiles) = Cardinality(MatchingPositions)
           /\ \A j \in 1..Len(matchedFiles) : matchedFiles[j] = fileList[NthMatching(j)]
    /\ pc = "done" => (shouldAnalyze <=> matchedFiles # <<>>)

\* a file listed once and matched by both patterns has been kept once, after a
\* file that matches neither
MatchFilesContractWitness ==
    /\ pc = "done"
    /\ Len(fileList) = 2
    /\ Len(patternList) = 2
    /\ MatchingPositions = {2}
    /\ \A p \in 1..2 : minimatch(fileList[2], patternList[p])
    /\ matchedFiles = <<fileList[2]>>
    /\ shouldAnalyze

(***************************************************************************)
(* Properties of the states of applyDiffPatch's main loop.                 *)
(***************************************************************************)
\* the loop is about to read line i of the patch
ReadsLine == pc = "loop" /\ i < Len(lines)

\* a hunk header is among the lines of the patch before line k
RECURSIVE HunkHeaderBefore(_)
HunkHeaderBefore(k) ==
    IF k <= 0 THEN FALSE
    ELSE StartsWith(At(lines, k - 1), "@@") \/ HunkHeaderBefore(k - 1)

\* the line read precedes the first hunk header
PreHunk == ReadsLine /\ ~HunkHeaderBefore(i) /\ ~StartsWith(At(lines, i), "@@")

\* the line read follows a hunk header
InHunk == ReadsLine /\ HunkHeaderBefore(i)

\* C23: in the Pre-hunk state no patch line that precedes the first hunk
\* header contributes to the output of the header-driven pass or moves the
\* cursor, the lines that follow a '---' or '+++' file header included.
PreHunkLinesIgnored ==
    [][PreHunk => (newLines' = newLines /\ lineIndex' = lineIndex)]_vars

\* C24: in the In-hunk state every deletion line (a patch line whose first
\* character is '-'), whatever the deleted text is, advances the cursor by
\* exactly one and emits nothing.
DeletionAdvancesCursor ==
    [][(InHunk /\ StartsWith(At(lines, i), "-"))
          => (lineIndex' = lineIndex + 1 /\ newLines' = newLines)]_vars

\* C25: in the In-hunk state every insertion line (a patch line whose first
\* character is '+') appends exactly the text after that first character to
\* the output and leaves the cursor unchanged.
InsertionAppendsText ==
    [][(InHunk /\ StartsWith(At(lines, i), "+"))
          => /\ newLines' = Append(newLines, Str(Substring1(At(lines, i))))
             /\ lineIndex' = lineIndex]_vars

\* the cursor is at a line of the original
CursorInside == lineIndex >= 0 /\ lineIndex < Len(originalLines)

\* the cursor before line k of the patch is read (k counted from 0)
CursorBefore(k) ==
    ApplyLoop(ApplyInitialState, SubSeq(lines, 1, k), 0, originalLines).lineIndex

\* the lines of the hunk that are context lines
HunkContextLines == {k \in 2..Len(lines) : StartsWith(lines[k], " ")}

\* the cursor is at a line of the original whenever a context line is read
ContextInsideOriginal ==
    \A k \in HunkContextLines :
        CursorBefore(k - 1) >= 0 /\ CursorBefore(k - 1) < Len(originalLines)

\* the patch with the text of every context line replaced
WithContextText(text) ==
    Join([k \in 1..Len(lines) |-> IF k \in HunkContextLines THEN " " \o text ELSE lines[k]])

\* C26: in the In-hunk state a context line (first character a space) appends
\* the original's line at the cursor position, not the text of the patch
\* line, and advances the cursor by one; two patches that differ only in the
\* text of their context lines give the same output while the cursor stays
\* inside the original.
ContextReadsOriginal ==
    /\ [][(InHunk /\ StartsWith(At(lines, i), " ") /\ CursorInside)
             => /\ newLines' = Append(newLines, Str(originalLines[lineIndex + 1]))
                /\ lineIndex' = lineIndex + 1]_vars
    /\ [](pc = "done" /\ ContextInsideOriginal
             => \A text \in {"q", ""} :
                    applyDiffPatch(originalContent, WithContextText(text)).value = result)

\* a context line whose text is not the original's has been read at the
\* cursor, and the original's line is in the output
ContextReadsOriginalWitness ==
    /\ pc = "done"
    /\ ContextInsideOriginal
    /\ \E k \in HunkContextLines :
           /\ CursorBefore(k - 1) = 1
           /\ Substring1(lines[k]) # originalLines[2]
    /\ \E n \in 1..Len(newLines) : newLines[n] = Str(originalLines[2])

\* a line of the hunk that consists of a single space
SingleSpaceLines == {k \in 2..Len(lines) : lines[k] = " "}

\* the patch with its line k made empty
WithBlankAt(k) == [lines EXCEPT ![k] = ""]

\* C27: in the In-hunk state a blank patch line is treated exactly as a
\* context line: for every original, every cursor position and every
\* surrounding patch, replacing a line that consists of a single space by an
\* empty line leaves the output and the cursor unchanged.
BlankLineIsContext ==
    pc = "done" =>
        \A k \in SingleSpaceLines :
            /\ applyDiffPatch(originalContent, Join(WithBlankAt(k))).value = result
            /\ ApplyLoop(ApplyInitialState, WithBlankAt(k), 0, originalLines).lineIndex
                   = lineIndex

\* the added lines that are no '+++' header and the lines that start with a
\* space, from line k of the patch on (k counted from 1), without their first
\* character
RECURSIVE VerbatimLines(_)
VerbatimLines(k) ==
    IF k > Len(lines) THEN <<>>
    ELSE (IF \/ StartsWith(lines[k], "+") /\ ~StartsWith(lines[k], "+++")
             \/ StartsWith(lines[k], " ")
          THEN <<Str(Substring1(lines[k]))>>
          ELSE <<>>)
         \o VerbatimLines(k + 1)

\* C28: the fallback pass runs if and only if the header-driven pass emitted
\* no output line, and its result is, in patch order, every line starting
\* with '+' that is not a '+++' header and every line starting with a space,
\* each with its first character removed, verbatim, without the original or
\* the cursor being used.
FallbackPass ==
    [][(pc = "loop" /\ pc' = "return")
          => newLines' = IF newLines = <<>> THEN VerbatimLines(1) ELSE newLines]_vars

\* the loop never entered the diff and the fallback pass has emitted the added
\* line of a patch that has a deletion line too
FallbackPassWitness ==
    /\ pc = "return"
    /\ ~inDiff
    /\ newLines # <<>>
    /\ \E k \in 1..Len(lines) : StartsWith(lines[k], "-")
    /\ \E k \in 1..Len(lines) : StartsWith(lines[k], "+")

\* the old-side starts of the hunk headers, and count fields and new-side
\* starts <<b, c, d>> to put beside them
OldStarts == {0, 1, 2}
OtherFields == {<<1, 2, 1>>, <<12, 30, 7>>}

\* the header is '@@ -a,b +c,d @@' for some b, c and d
HasOldStart(header, a) == StartsWith(header, "@@ -" \o NatToString(a) \o ",")

\* hunk headers '@@ -a,b +c,d @@' and '@@ -a +c @@' with old-side start a
HeadersWithStart(a) ==
    {"@@ -" \o NatToString(a) \o "," \o NatToString(f[1]) \o " +" \o NatToString(f[2])
         \o "," \o NatToString(f[3]) \o " @@" : f \in OtherFields}
    \cup {"@@ -" \o NatToString(a) \o " +" \o NatToString(f[2]) \o " @@" : f \in OtherFields}

\* C29: the numbers of a hunk header only seed the cursor: two patches that
\* are identical except for the count fields and the new-side start of their
\* hunk headers ('@@ -a,b +c,d @@' against '@@ -a,b2 +c2,d2 @@') give the
\* same output on every original.
HeaderSeedsCursorOnly ==
    pc = "done" =>
        \A a \in OldStarts :
            HasOldStart(lines[1], a) =>
                \A header \in HeadersWithStart(a) :
                    applyDiffPatch(originalContent, Join(<<header>> \o Tail(lines))).value
                        = result

\* a hunk whose header has old-side start 2 has read the second line of the
\* original for its context line
HeaderSeedsCursorOnlyWitness ==
    /\ pc = "done"
    /\ lines[1] = "@@ -2,1 +2,1 @@"
    /\ HasOldStart(lines[1], 2)
    /\ Len(lines) >= 2
    /\ lines[2] = " a"
    /\ Len(originalLines) = 2
    /\ newLines[1] = Str(originalLines[2])

(***************************************************************************)
(* Properties of generateDiffPatch followed by applyDiffPatch.             *)
(***************************************************************************)
\* the content holds none of the three headers, whatever the case of letters
NoChangelogHeader(content) ==
    /\ ~Includes(ToLowerCase(content), "## changes")
    /\ ~Includes(ToLowerCase(content), "## changelog")
    /\ ~Includes(ToLowerCase(content), "## recent updates")

\* the lines of the content with the five lines of the section put in at line
\* index min(3, number of lines)
WithFiveLines(content) ==
    LET readme == Split(content)
        at == IF Len(readme) < 3 THEN Len(readme) ELSE 3
    IN  SubSeq(readme, 1, at)
        \o <<"", "## Recent Changes", "", "- " \o prTitle, "">>
        \o SubSeq(readme, at + 1, Len(readme))

\* C30: for every README.md content of any length that holds none of
\* '## changes', '## changelog', '## recent updates' (case-insensitive),
\* applying the patch returned by generateDiffPatch to that same content with
\* applyDiffPatch yields exactly the content with the five lines '',
\* '## Recent Changes', '', '- <prTitle>', '' inserted at line index
\* min(3, number of lines), every original line being kept in order.
ChangelogRoundTrip ==
    (docFiles # <<>> /\ docFiles[1].path = "README.md"
        /\ NoChangelogHeader(docFiles[1].content))
    => /\ pc # "returned"
       /\ pc = "done" => result = Join(WithFiveLines(docFiles[1].content))

(***************************************************************************)
(* Properties of extractNewExports.                                        *)
(***************************************************************************)
\* the elements of a list
Elements(arr) == {arr[k] : k \in 1..Len(arr)}

\* how many times name stands in the list
Occurrences(arr, name) == Cardinality({k \in 1..Len(arr) : arr[k] = name})

\* the identifiers declared on the added lines of the files: the lines of the
\* patches that start with "+export <kind> <name>"
AddedDeclarations(files) ==
    {name \in {"foo", "Bar"} : DeclaredOnAddedLine(files, name)}

\* C31: extractNewExports returns a duplicate-free collection: an identifier
\* declared on several added lines, in one file or across several changed
\* files, appears exactly once in the result, and the set of the identifiers
\* returned does not depend on the order of the changed files.
ExportsAreASet ==
    pc = "done" =>
        /\ \A name \in AddedDeclarations(changedFiles) : Occurrences(exports, name) = 1
        /\ \A k \in 1..Len(exports) : Occurrences(exports, exports[k]) = 1
        /\ \A files \in Reorderings(changedFiles) :
               Elements(extractNewExports(files)) = Elements(exports)

\* foo is declared on two added lines of the first file and on one of the
\* second, which declares Bar before it
ExportsAreASetWitness ==
    /\ pc = "done"
    /\ Len(changedFiles) = 2
    /\ changedFiles[1].filename = "src/a.ts"
    /\ changedFiles[2].filename = "src/b.ts"
    /\ exports = <<"foo", "Bar">>

(***************************************************************************)
(* Properties of two passes for one pull request.                          *)
(***************************************************************************)
\* the pass has created its sync branch and has not opened its draft yet
BetweenBranchAndDraft(p) == passPc[p] \in {"getContent", "commit", "createPR"}

\* the sync branch is the one the pass created
OwnBranch(p) == branch.exists /\ branch.generation = passRef[p]

\* C32: two passes for the same pull request with draft-PR delivery do not
\* interfere: under every interleaving of their API calls, the commits of
\* each pass land on a sync branch that this pass created and that the other
\* pass neither deletes nor recreates before the pass's own draft PR is
\* opened, and neither pass fails because of the other.
PassesDoNotInterfere ==
    /\ \A p \in Passes : passPc[p] # "failed"
    /\ \A p \in Passes : BetweenBranchAndDraft(p) => OwnBranch(p)
    /\ \A k \in 1..Len(commits) : commits[k].generation = passRef[commits[k].pass]

(***************************************************************************)
(* Properties of analyzePRForDocUpdates.                                   *)
(***************************************************************************)
\* the position in calls of the first call to the API; 0 when there is none
RECURSIVE FirstCallFrom(_, _)
FirstCallFrom(api, k) ==
    IF k > Len(calls) THEN 0
    ELSE IF calls[k].api = api THEN k
    ELSE FirstCallFrom(api, k + 1)

\* the calls of analyzePRForDocUpdates: the diff, the list of changed files
\* (the handler listed them once before), the tree
DiffCall == FirstCallFrom("pulls.get", 1)
AnalysisFilesCall == IF DiffCall = 0 THEN 0 ELSE FirstCallFrom("pulls.listFiles", DiffCall)
TreeCall == FirstCallFrom("git.getTree", 1)

Failed(k) == k # 0 /\ calls[k].status # 200

\* analyzePRForDocUpdates is running, or has returned to the handler
InAnalysis == pc \in {"getDiff", "analysisFiles", "getTree", "readDoc", "check", "generate"}

\* the documentation files that have been read with their content, from the
\* k-th read on
RECURSIVE DocsRead(_)
DocsRead(k) ==
    IF k > pathIndex THEN <<>>
    ELSE (IF calls[TreeCall + k].status = 200 /\ calls[TreeCall + k].data.hasContent
          THEN <<[path |-> matchedPaths[k],
                  content |-> FromBase64(calls[TreeCall + k].data.content)]>>
          ELSE <<>>)
         \o DocsRead(k + 1)

\* C33: analyzePRForDocUpdates never throws: if fetching the diff of the pull
\* request or the list of changed files fails (or the generation of the
\* suggestions), it logs and returns the empty list, so the handler posts
\* nothing; if reading one matched documentation file fails, that file is
\* skipped and the remaining files are still analysed; if fetching the tree
\* of the repository fails, the analysis runs on an empty documentation list.
AnalysisNeverThrows ==
    /\ (InAnalysis \/ pc = "returned") => thrown = NoError
    /\ (Failed(DiffCall) \/ Failed(AnalysisFilesCall)) =>
           /\ pc \in {"returned", "done"}
           /\ suggestions = <<>>
           /\ thrown = NoError
           /\ errorLog # <<>>
           /\ errorLog[Len(errorLog)].by = "analyzePRForDocUpdates"
           /\ calls[Len(calls)].status # 200
           /\ calls[Len(calls)].api \in {"pulls.get", "pulls.listFiles"}
    /\ (pc \in {"readDoc", "check", "generate"} /\ TreeCall # 0) =>
           /\ Len(calls) = TreeCall + pathIndex
           /\ \A k \in 1..pathIndex :
                  /\ calls[TreeCall + k].api = "repos.getContent"
                  /\ calls[TreeCall + k].args.path = matchedPaths[k]
           /\ docFiles = DocsRead(1)
           /\ pc \in {"check", "generate"} => pathIndex = Len(matchedPaths)
    /\ (pc \in {"readDoc", "check", "generate"} /\ Failed(TreeCall)) =>
           /\ matchedPaths = <<>>
           /\ docFiles = <<>>
           /\ errorLog[Len(errorLog)].by = "getDocumentationFiles"

\* the first of two documentation files could not be read and the second is
\* being analysed
AnalysisNeverThrowsWitness ==
    /\ pc = "generate"
    /\ Len(matchedPaths) = 2
    /\ calls[TreeCall + 1].status # 200
    /\ calls[TreeCall + 2].status = 200
    /\ Len(docFiles) = 1
    /\ docFiles[1].path = matchedPaths[2]
    /\ thrown = NoError

(***************************************************************************)
(* Properties of the heuristic generator.                                  *)
(***************************************************************************)
\* a line of the content is one of the headings "## API", "## Usage",
\* "## Features"
HasApiHeading(content) ==
    \E k \in 1..Len(Split(content)), h \in 1..Len(apiHeaders) :
        ToLowerCase(Trim(Split(content)[k])) = ToLowerCase(apiHeaders[h])

\* the step of the loop of generateDocumentationSuggestions pushes a suggestion
SuggestionPushed == Len(suggestions') > Len(suggestions)

\* C34: the heuristic generator emits a suggestion only for a documentation
\* file whose path is exactly "README.md": for every other matched path
\* ("docs/api.md", the nested "pkg/README.md") it contributes no suggestion
\* whatever the changed files are; for a "README.md" that already has a
\* changelog heading it emits one only if some new export was extracted and
\* one of the headings "## API", "## Usage", "## Features" exists.
OnlyReadmeSuggested ==
    [][SuggestionPushed =>
          /\ DocFile.path = "README.md"
          /\ suggestions'[Len(suggestions')].filePath = "README.md"
          /\ hasChangelogSection(DocFile.content) =>
                 /\ extractNewExports(changedFiles) # <<>>
                 /\ HasApiHeading(DocFile.content)]_vars

\* the nested README was analysed with a change that needs an update and got
\* no suggestion; the README.md with its changelog heading got one
OnlyReadmeSuggestedWitness ==
    /\ pc = "returned"
    /\ docFiles = <<Doc("pkg/README.md", "## API"), Doc("README.md", "## API\n## Changes")>>
    /\ checkIfDocNeedsUpdate(docFiles[1], changedFiles)
    /\ Len(suggestions) = 1
    /\ suggestions[1].filePath = "README.md"

\* the line handled last by the header-driven pass is a hunk header whose
\* old-side start is a
HeaderJustRead(a) ==
    /\ pc = "loop"
    /\ i > 0
    /\ HasOldStart(At(lines, i - 1), a)

\* C35: the cursor invariant of applyDiffPatch: after a hunk header
\* '@@ -a,b +c,d @@' the read cursor equals a-1, the cursor is never negative
\* at any point of the pass, and every line appended to the output is a
\* defined string (a line of the original or text of the patch), a header
\* with a = 0 such as '@@ -0,0 +1,5 @@' included.
CursorInvariant ==
    /\ \A a \in OldStarts : HeaderJustRead(a) => lineIndex = a - 1
    /\ lineIndex >= 0
    /\ \A k \in 1..Len(newLines) : newLines[k].defined

====
